---------------------------- MODULE Spec2Model ----------------------------
(***************************************************************************)
(* A model of the chat-turn source-attribution pipeline of the video       *)
(* knowledge platform (backend/app/api/chat.py), of the access filter      *)
(* (backend/app/services/access_control.py), of the conversation store     *)
(* (backend/app/services/conversation_service.py) and of the registry of   *)
(* per-organization retrieval instances                                    *)
(* (backend/app/services/lightrag_service.py).                             *)
(*                                                                         *)
(* Texts are strings; the Python string operations the pipeline uses       *)
(* (lower, strip, split, substring test, the capitalised-run regular       *)
(* expression) are computed character by character.  Times are integers  *)
(* in tenths of a second, so 0.1s is 1, 0.5s is 5 and int(t) is t \div 10. *)
(* The texts of the model are ASCII: the letters AE, OE, AA of the regular *)
(* expression's classes do not occur in them.                              *)
(***************************************************************************)
EXTENDS Integers, Sequences, FiniteSets, TLC

VARIABLES
    db,              \* videos, video_segments and video_access_permissions
    user,            \* current_user of the request
    conversations,   \* rows of the conversations table
    messages,        \* rows of the messages table, in created_at order
    pc,              \* position of send_message
    request,         \* chat_request: message and conversation_id
    conversation,    \* id of the conversation of the turn
    history,         \* conversation history handed to the retrieval backend
    ctx_vectors,     \* lightrag_context_vectors
    ctx_mix,         \* lightrag_context_mix
    header_sources,  \* result of _parse_sources_from_lightrag
    generated_answer,\* the answer as the retrieval backend returned it
    answer,          \* lightrag_answer
    search_terms,    \* all_entities and all_keywords of the answer-based search
    answer_sources,  \* result of the first _search_sources_from_answer
    sources,         \* the local variable sources of send_message
    log,             \* external effects of the turn, in order
    response,        \* what send_message returned or raised
    instances,       \* LightRAGService._instances
    constructed,     \* LightRAG objects constructed so far
    initialized,     \* LightRAG objects whose storages were initialized
    pipeline_inits,  \* number of initialize_pipeline_status calls
    caller,          \* the concurrent get_rag_instance calls
    lightrag_service,    \* the module's global _lightrag_service
    service_initialized, \* LightRAGService._initialized
    shutdown,        \* the calls of shutdown_lightrag_service
    finalize_calls,  \* the calls of finalize_storages made so far, in order
    search_pc,       \* position of search_videos
    search_request,  \* search_request: its security_level_filter
    lightrag_context,\* lightrag_context of search_videos
    search_response, \* what search_videos returned or raised
    conversation_response, \* what the last operation on a conversation returned
    requests,        \* number of requests that followed the first one
    video_status,    \* video.status of the uploaded video, "none" before the upload
    tasks,           \* the transcribe_video tasks sent to the queue, and their positions
    video_response,  \* status of the last upload or reprocess request
    access_result,   \* the last call of can_access_video and what it returned
    accessible       \* what the last call of filter_accessible_videos returned

vars == <<db, user, conversations, messages, pc, request, conversation,
          history, ctx_vectors, ctx_mix, header_sources, generated_answer, answer,
          search_terms, answer_sources, sources, log, response, instances,
          constructed,
          initialized, pipeline_inits, caller, lightrag_service,
          service_initialized, shutdown, finalize_calls, search_pc,
          search_request, lightrag_context, search_response,
          conversation_response, requests, video_status, tasks, video_response,
          access_result, accessible>>

turnVars == <<db, user, conversations, messages, pc, request, conversation,
              history, ctx_vectors, ctx_mix, header_sources, generated_answer,
              answer, search_terms, answer_sources, sources, log, response>>

shutdownVars == <<lightrag_service, service_initialized, shutdown, finalize_calls>>

searchVars == <<search_pc, search_request, lightrag_context, search_response>>

conversationVars == <<conversation_response, requests>>

processingVars == <<video_status, tasks, video_response>>

accessVars == <<access_result, accessible>>

endpointVars == <<searchVars, conversationVars, processingVars, accessVars>>

serviceVars == <<instances, constructed, initialized, pipeline_inits, caller,
                 lightrag_service, service_initialized, shutdown, finalize_calls>>

ragVars == <<serviceVars, endpointVars>>

--------------------------------------------------------------------------
(* Python string operations *)

UpperLetters == "ABCDEFGHIJKLMNOPQRSTUVWXYZ"
LowerLetters == "abcdefghijklmnopqrstuvwxyz"
DigitChars == "0123456789_"

Ch(s, i) == SubSeq(s, i, i)

CharsOf(s) == {Ch(s, i) : i \in 1..Len(s)}

UpperSet == CharsOf(UpperLetters)

LowerSet == CharsOf(LowerLetters)

WordSet == UpperSet \cup LowerSet \cup CharsOf(DigitChars)

DigitSet == CharsOf("0123456789")

IsUpper(c) == c \in UpperSet

IsLower(c) == c \in LowerSet

\* \w of the re module
IsWordChar(c) == c \in WordSet

\* \s of the re module, and the separators of str.split() and str.strip()
IsSpace(c) == c \in {" ", "\n", "\t"}

LowerMap ==
    [c \in UpperSet |->
        Ch(LowerLetters, CHOOSE i \in 1..Len(UpperLetters) : Ch(UpperLetters, i) = c)]

LowerCh(c) == IF IsUpper(c) THEN LowerMap[c] ELSE c

RECURSIVE Lower(_)
\* str.lower(): every character in lower case; the string is halved so that
\* the depth of the recursion stays small on long texts
Lower(s) ==
    IF s = "" THEN ""
    ELSE IF Len(s) = 1 THEN LowerCh(s)
    ELSE LET half == Len(s) \div 2
         IN  Lower(SubSeq(s, 1, half)) \o Lower(SubSeq(s, half + 1, Len(s)))

RECURSIVE LStrip(_)
LStrip(s) == IF s # "" /\ IsSpace(Ch(s, 1)) THEN LStrip(Tail(s)) ELSE s

RECURSIVE RStrip(_)
RStrip(s) ==
    IF s # "" /\ IsSpace(Ch(s, Len(s))) THEN RStrip(SubSeq(s, 1, Len(s) - 1)) ELSE s

\* str.strip()
Strip(s) == RStrip(LStrip(s))

RECURSIVE SplitAcc(_, _, _, _)
SplitAcc(s, i, cur, acc) ==
    IF i > Len(s)
    THEN IF cur = "" THEN acc ELSE Append(acc, cur)
    ELSE IF IsSpace(Ch(s, i))
         THEN SplitAcc(s, i + 1, "", IF cur = "" THEN acc ELSE Append(acc, cur))
         ELSE SplitAcc(s, i + 1, cur \o Ch(s, i), acc)

\* str.split(): the maximal runs of non-whitespace characters
Split(s) == SplitAcc(s, 1, "", <<>>)

\* needle in hay
Contains(hay, needle) ==
    \E i \in 1..(Len(hay) - Len(needle) + 1) :
        SubSeq(hay, i, i + Len(needle) - 1) = needle

\* str.startswith
StartsWith(s, p) == Len(s) >= Len(p) /\ SubSeq(s, 1, Len(p)) = p

Range(f) == {f[i] : i \in DOMAIN f}

--------------------------------------------------------------------------
(* The entity pattern \b[A-Z][a-z]+(?:\s+[A-Z][a-z]+)*\b *)

WordAt(s, i) == i >= 1 /\ i <= Len(s) /\ IsWordChar(Ch(s, i))

\* \b between the characters i-1 and i
BoundaryAt(s, i) == WordAt(s, i - 1) # WordAt(s, i)

RECURSIVE LowerRunEnd(_, _)
\* last index of the run of lower-case letters that starts at i (i-1 if none)
LowerRunEnd(s, i) ==
    IF i <= Len(s) /\ IsLower(Ch(s, i)) THEN LowerRunEnd(s, i + 1) ELSE i - 1

\* [A-Z][a-z]+ at i, taken greedily: its last index, or 0 when it does not match
CapWordEnd(s, i) ==
    IF i <= Len(s) /\ IsUpper(Ch(s, i)) /\ LowerRunEnd(s, i + 1) > i
    THEN LowerRunEnd(s, i + 1)
    ELSE 0

RECURSIVE SkipSpace(_, _)
SkipSpace(s, i) == IF i <= Len(s) /\ IsSpace(Ch(s, i)) THEN SkipSpace(s, i + 1) ELSE i

RECURSIVE EntityEnds(_, _)
\* the ends the repetition can stop at, starting from a word that ends at e,
\* longest first (the order in which the greedy repetition backtracks)
EntityEnds(s, e) ==
    LET k == SkipSpace(s, e + 1)
        n == IF k > e + 1 THEN CapWordEnd(s, k) ELSE 0
    IN  IF n > 0 THEN EntityEnds(s, n) \o <<e>> ELSE <<e>>

\* the end of the match that starts at i, or 0
EntityMatchEnd(s, i) ==
    IF BoundaryAt(s, i) /\ CapWordEnd(s, i) > 0
    THEN LET ends == SelectSeq(EntityEnds(s, CapWordEnd(s, i)),
                               LAMBDA e : BoundaryAt(s, e + 1))
         IN  IF ends = <<>> THEN 0 ELSE Head(ends)
    ELSE 0

RECURSIVE FindEntitiesFrom(_, _)
FindEntitiesFrom(s, i) ==
    IF i > Len(s) THEN <<>>
    ELSE LET e == EntityMatchEnd(s, i)
         IN  IF e > 0 THEN <<SubSeq(s, i, e)>> \o FindEntitiesFrom(s, e + 1)
             ELSE FindEntitiesFrom(s, i + 1)

\* re.findall(pattern, s)
FindEntities(s) == FindEntitiesFrom(s, 1)

--------------------------------------------------------------------------
(* Program state *)

\* the identifier grammar 8-4-4-4-12 of hexadecimal digits, re.IGNORECASE
HexChars == "0123456789abcdefABCDEF"

HexSet == CharsOf(HexChars)

UuidLen == 36

\* an identifier test that takes the hyphens as optional
IsUuidLoose(s) ==
    /\ Len(s) \in {UuidLen - 4, UuidLen}
    /\ \A i \in 1..Len(s) : Ch(s, i) = "-" \/ Ch(s, i) \in HexSet

IsUuid(s) ==
    /\ Len(s) = UuidLen
    /\ \A i \in 1..UuidLen :
          IF i \in {9, 14, 19, 24}
          THEN Ch(s, i) = "-"
          ELSE Ch(s, i) \in HexSet

RECURSIVE DigitsValue(_, _)
\* the value of a string of decimal digits, read after the accumulator acc
DigitsValue(s, acc) ==
    IF s = "" THEN acc
    ELSE DigitsValue(Tail(s),
             10 * acc + (CHOOSE d \in 0..9 : Ch(DigitChars, d + 1) = Ch(s, 1)))

IsDigits(s) == s # "" /\ \A i \in 1..Len(s) : Ch(s, i) \in DigitSet

\* int(segment_id_str): ok is FALSE where Python raises ValueError
ParseInt(s) ==
    LET t == Strip(s)
    IN  IF IsDigits(t) THEN [ok |-> TRUE, value |-> DigitsValue(t, 0)]
        ELSE [ok |-> FALSE, value |-> 0]

\* the spellings float() reads as an infinity or as not-a-number, in lower case
InfinityLiterals == {"inf", "+inf", "infinity", "+infinity"}
NegativeInfinityLiterals == {"-inf", "-infinity"}
NanLiterals == {"nan", "+nan", "-nan"}

\* float(start_str) for the decimal forms d+ and d+.d, in tenths of a second,
\* and for the non-finite spellings; ok is FALSE where Python raises
\* ValueError; kind is "finite", "inf", "-inf" or "nan"
ParseFloat(s) ==
    LET t == Strip(s)
        n == Len(t)
    IN  IF IsDigits(t)
        THEN [ok |-> TRUE, kind |-> "finite", value |-> 10 * DigitsValue(t, 0)]
        ELSE IF n >= 3 /\ Ch(t, n - 1) = "." /\ IsDigits(SubSeq(t, 1, n - 2))
                /\ IsDigits(Ch(t, n))
        THEN [ok |-> TRUE, kind |-> "finite",
              value |-> 10 * DigitsValue(SubSeq(t, 1, n - 2), 0)
                        + DigitsValue(Ch(t, n), 0)]
        ELSE IF Lower(t) \in InfinityLiterals
        THEN [ok |-> TRUE, kind |-> "inf", value |-> 0]
        ELSE IF Lower(t) \in NegativeInfinityLiterals
        THEN [ok |-> TRUE, kind |-> "-inf", value |-> 0]
        ELSE IF Lower(t) \in NanLiterals
        THEN [ok |-> TRUE, kind |-> "nan", value |-> 0]
        ELSE [ok |-> FALSE, kind |-> "finite", value |-> 0]

\* int(t) of a non-negative time
Floor(t) == t \div 10

Abs(n) == IF n < 0 THEN -n ELSE n

TextLimit == 200

\* the excerpt with the ellipsis from the limit on
TruncateFromLimit(text) ==
    IF Len(text) >= TextLimit THEN SubSeq(text, 1, TextLimit) \o "..." ELSE text

\* segment.text[:200] + "..." if len(segment.text) > 200 else segment.text
Truncate(text) ==
    IF Len(text) > TextLimit THEN SubSeq(text, 1, TextLimit) \o "..." ELSE text

\* MessageSource(video_id=..., video_title=..., timestamp=..., text=..., url=...)
MessageSource(video, segment) ==
    [video_id |-> video.id,
     video_title |-> video.title,
     timestamp |-> segment.start_time,
     text |-> Truncate(segment.text),
     url |-> "/videos/" \o video.id \o "?t=" \o ToString(Floor(segment.start_time))]

\* the key (source.video_id, int(source.timestamp)) of a source
SourceKey(source) == <<source.video_id, Floor(source.timestamp)>>

\* can_edit_video(user, video, db)
can_edit_video(u, video, d) ==
    IF u.role = "super_admin" THEN TRUE
    ELSE IF u.role = "org_admin" /\ u.organization_id = video.organization_id THEN TRUE
    ELSE IF video.uploaded_by = u.id THEN TRUE
    ELSE \E p \in d.permissions :
             /\ p.video_id = video.id
             /\ p.user_id = u.id
             /\ p.permission_type \in {"edit", "admin"}

\* check_security_clearance(user, security_level)
check_security_clearance(u, security_level) ==
    IF security_level \in {"public", "internal"} THEN TRUE
    ELSE u.role \in {"org_admin", "super_admin"}

\* an access test that looks for the permission row before the organization
can_access_video_permission_first(u, video, d) ==
    IF u.role = "super_admin" THEN TRUE
    ELSE IF u.role = "org_admin" /\ u.organization_id = video.organization_id THEN TRUE
    ELSE IF \E p \in d.permissions : p.video_id = video.id /\ p.user_id = u.id THEN TRUE
    ELSE IF u.organization_id # video.organization_id THEN FALSE
    ELSE u.role \in {"org_admin", "super_admin"}
         \/ video.security_level \in {"public", "internal"}

\* can_access_video(user, video, db)
can_access_video(u, video, d) ==
    IF u.role = "super_admin" THEN TRUE
    ELSE IF u.role = "org_admin" /\ u.organization_id = video.organization_id THEN TRUE
    ELSE IF u.organization_id # video.organization_id THEN FALSE
    ELSE IF \E p \in d.permissions : p.video_id = video.id /\ p.user_id = u.id THEN TRUE
    ELSE check_security_clearance(u, video.security_level)

\* db.query(Video).filter(Video.id == id).first(): the set holds at most one
VideosById(d, id) == {v \in d.videos : v.id = Lower(id)}

\* segment.video
VideoOf(d, segment) == CHOOSE v \in d.videos : v.id = segment.video_id

\* query.filter(T).first() on the rows of video_segments: the first row, in the
\* order of the table, that satisfies T; <<>> stands for None
FirstSegment(d, T(_)) ==
    LET rows == SelectSeq(d.segments, T)
    IN  IF rows = <<>> THEN <<>> ELSE <<Head(rows)>>

RECURSIVE InsertPair(_, _)
\* the pairs s, sorted by their first component, with the pair x put after
\* the pairs whose first component is not greater
InsertPair(s, x) ==
    IF s = <<>> THEN <<x>>
    ELSE IF x[1] < Head(s)[1] THEN <<x>> \o s
    ELSE <<Head(s)>> \o InsertPair(Tail(s), x)

RECURSIVE SortPairs(_)
\* a stable sort of <<key, row>> pairs by ascending key
SortPairs(s) ==
    IF s = <<>> THEN <<>>
    ELSE InsertPair(SortPairs(SubSeq(s, 1, Len(s) - 1)), s[Len(s)])

\* the rows of s in ascending order of Key, rows of equal key in their order
SortBy(s, Key(_)) ==
    LET sorted == SortPairs([i \in 1..Len(s) |-> <<Key(s[i]), s[i]>>])
    IN  [i \in 1..Len(s) |-> sorted[i][2]]

\* s[:n]
Take(s, n) == SubSeq(s, 1, IF Len(s) < n THEN Len(s) ELSE n)

\* sum(1 for x in s if T(x))
Count(s, T(_)) == Len(SelectSeq(s, T))

\* [f(x) for x in s]
LowerAll(s) == [i \in DOMAIN s |-> Lower(s[i])]

\* the possible values, as sets, of list(set(...))[:n]: the iteration order of
\* a Python set of strings is not fixed, so any n members can come first
Pick(S, n) ==
    IF Cardinality(S) <= n THEN {S} ELSE {T \in SUBSET S : Cardinality(T) = n}

--------------------------------------------------------------------------
(* _parse_sources_from_lightrag.  A retrieval context is the sequence of   *)
(* its bracketed [video_id=...;start=...;end=...;segment_id=...] markers, *)
(* each with the text that follows it up to the next marker; the end      *)
(* field, which the resolver never reads, is left out.                    *)

HeaderTextLimit == 500

MaxHeaderSources == 20

TimeTolerance == 1

\* re.findall(pattern, lightrag_response, re.IGNORECASE): the markers whose
\* video_id has the identifier grammar
HeaderMatches(context) ==
    SelectSeq(context, LAMBDA h : IsUuid(h.video_id) /\ h.start # "" /\ h.segment_id # "")

\* header_text_pairs: re.split on \[video_id=[^\]]+\] cuts at every marker,
\* whatever its video_id looks like
HeaderTextPairs(context) ==
    [i \in DOMAIN context |-> Take(context[i].text, HeaderTextLimit)]

\* [word.lower() for word in query.split() if len(word) > 2]
HeaderQueryKeywords(query) ==
    LowerAll(SelectSeq(Split(query), LAMBDA w : Len(w) > 2))

\* the three segment lookups with the ordinal tried before the start time
ResolveSegmentOrdinalFirst(d, video_id, start, segment_id_str) ==
    LET byTime == FirstSegment(d, LAMBDA r :
                      /\ start.kind = "finite"
                      /\ r.video_id = video_id
                      /\ r.start_time >= start.value - TimeTolerance
                      /\ r.start_time <= start.value + TimeTolerance)
        ordinal == ParseInt(segment_id_str)
        byOrdinal == IF ordinal.ok
                     THEN FirstSegment(d, LAMBDA r :
                              r.video_id = video_id /\ r.segment_id = ordinal.value)
                     ELSE <<>>
        anyOf == FirstSegment(d, LAMBDA r : r.video_id = video_id)
    IN  IF byOrdinal # <<>> THEN byOrdinal
        ELSE IF byTime # <<>> THEN byTime
        ELSE anyOf

\* the three segment lookups of the resolver, in order; <<>> when all fail
ResolveSegment(d, video_id, start, segment_id_str) ==
    LET byTime == FirstSegment(d, LAMBDA r :
                      /\ start.kind = "finite"
                      /\ r.video_id = video_id
                      /\ r.start_time >= start.value - TimeTolerance
                      /\ r.start_time <= start.value + TimeTolerance)
        ordinal == ParseInt(segment_id_str)
        byOrdinal == IF ordinal.ok
                     THEN FirstSegment(d, LAMBDA r :
                              r.video_id = video_id /\ r.segment_id = ordinal.value)
                     ELSE <<>>
        anyOf == FirstSegment(d, LAMBDA r : r.video_id = video_id)
    IN  IF byTime # <<>> THEN byTime
        ELSE IF byOrdinal # <<>> THEN byOrdinal
        ELSE anyOf

\* context_text of match number idx: the text of pair number idx, if any
LocalContextText(pairs, idx) ==
    IF idx <= Len(pairs) THEN Lower(pairs[idx]) ELSE ""

\* has_relevant_content
HasRelevantContent(query_keywords, segment_text, context_text) ==
    IF query_keywords # <<>>
    THEN \/ Count(query_keywords, LAMBDA k : Contains(Lower(segment_text), k)) > 0
         \/ Count(query_keywords, LAMBDA k : Contains(context_text, k)) > 0
    ELSE TRUE

RECURSIVE ParseLoopKeepingRepeats(_, _, _, _, _, _, _, _)
\* the loop over the matches without its test for a key seen before
ParseLoopKeepingRepeats(d, u, matches, pairs, query_keywords, idx, seen, srcs) ==
    IF idx > Len(matches) THEN srcs
    ELSE
    LET h == matches[idx]
        start == ParseFloat(h.start)
        \* (video_id_str, start_time): a nan is equal to no other nan
        key == <<h.video_id, start.kind,
                 IF start.kind = "nan" THEN idx ELSE start.value>>
        videos == {v \in VideosById(d, h.video_id) :
                       v.organization_id = u.organization_id}
        video == CHOOSE v \in videos : TRUE
        segment == ResolveSegment(d, Lower(h.video_id), start, h.segment_id)
        context_text == LocalContextText(pairs, idx)
        next(seen2, srcs2) ==
            ParseLoopKeepingRepeats(d, u, matches, pairs, query_keywords, idx + 1, seen2, srcs2)
    IN  IF ~start.ok THEN next(seen, srcs)
        ELSE IF videos = {} \/ ~can_access_video(u, video, d)
             THEN next(seen \cup {key}, srcs)
        ELSE IF segment = <<>> THEN next(seen \cup {key}, srcs)
        ELSE IF ~HasRelevantContent(query_keywords, segment[1].text, context_text)
             THEN next(seen \cup {key}, srcs)
        ELSE IF Len(srcs) + 1 >= MaxHeaderSources
             THEN Append(srcs, MessageSource(video, segment[1]))
        ELSE next(seen \cup {key}, Append(srcs, MessageSource(video, segment[1])))

RECURSIVE ParseLoop(_, _, _, _, _, _, _, _)
\* the loop over the matches, from match number idx on
ParseLoop(d, u, matches, pairs, query_keywords, idx, seen, srcs) ==
    IF idx > Len(matches) THEN srcs
    ELSE
    LET h == matches[idx]
        start == ParseFloat(h.start)
        \* (video_id_str, start_time): a nan is equal to no other nan
        key == <<h.video_id, start.kind,
                 IF start.kind = "nan" THEN idx ELSE start.value>>
        videos == {v \in VideosById(d, h.video_id) :
                       v.organization_id = u.organization_id}
        video == CHOOSE v \in videos : TRUE
        segment == ResolveSegment(d, Lower(h.video_id), start, h.segment_id)
        context_text == LocalContextText(pairs, idx)
        next(seen2, srcs2) ==
            ParseLoop(d, u, matches, pairs, query_keywords, idx + 1, seen2, srcs2)
    IN  IF ~start.ok THEN next(seen, srcs)
        ELSE IF key \in seen THEN next(seen, srcs)
        ELSE IF videos = {} \/ ~can_access_video(u, video, d)
             THEN next(seen \cup {key}, srcs)
        ELSE IF segment = <<>> THEN next(seen \cup {key}, srcs)
        ELSE IF ~HasRelevantContent(query_keywords, segment[1].text, context_text)
             THEN next(seen \cup {key}, srcs)
        ELSE IF Len(srcs) + 1 >= MaxHeaderSources
             THEN Append(srcs, MessageSource(video, segment[1]))
        ELSE next(seen \cup {key}, Append(srcs, MessageSource(video, segment[1])))

\* _parse_sources_from_lightrag(lightrag_response, query, current_user, db)
ParseSourcesFromLightrag(d, u, context, query) ==
    ParseLoop(d, u, HeaderMatches(context), HeaderTextPairs(context),
              HeaderQueryKeywords(query), 1, {}, <<>>)

--------------------------------------------------------------------------
(* _search_sources_from_answer *)

SearchLimit == 5

SearchStopwords ==
    {"som", "det", "er", "og", "har", "kan", "for", "med", "den", "til", "der",
     "sitt", "sin", "sine", "han", "hun", "de", "en", "et", "av", "ved", "om",
     "i", "jobb", "arbeid"}

\* [word.lower() for word in text.split()
\*  if len(word) > 3 and word.lower() not in stopwords]
Keywords(text, stopwords) ==
    LowerAll(SelectSeq(Split(text),
                       LAMBDA w : Len(w) > 3 /\ Lower(w) \notin stopwords))

\* set(answer_entities + query_entities)
SearchEntities(ans, query) == Range(FindEntities(ans)) \cup Range(FindEntities(query))

\* set(answer_keywords + query_keywords)
SearchKeywords(ans, query) ==
    Range(Keywords(ans, SearchStopwords)) \cup Range(Keywords(query, SearchStopwords))

\* the values all_entities, all_keywords, all_entities[:5] and all_keywords[:5]
\* can take
SearchTerms(ans, query) ==
    UNION {{[entities |-> SearchEntities(ans, query), keywords |-> k10,
             filter_entities |-> e5, filter_keywords |-> k5] :
                k5 \in Pick(k10, 5), e5 \in Pick(SearchEntities(ans, query), 5)} :
           k10 \in Pick(SearchKeywords(ans, query), 10)}

\* VideoSegment.text.ilike("%term%")
ILike(text, term) == Contains(Lower(text), Lower(term))

\* the query of the searcher without its organization condition
SearchCandidatesAnyOrganization(d, u, terms, limit) ==
    Take(SortBy(SelectSeq(d.segments, LAMBDA r :
                    \/ \E e \in terms.filter_entities : ILike(r.text, e)
                    \/ \E k \in terms.filter_keywords : ILike(r.text, k)),
                LAMBDA r : r.start_time),
         limit * 5)

\* the rows the query of the searcher returns: those of the videos of the
\* user's organization that match a term, by start time, at most limit * 5
SearchCandidates(d, u, terms, limit) ==
    Take(SortBy(SelectSeq(d.segments, LAMBDA r :
                    /\ \E v \in d.videos : v.id = r.video_id
                                           /\ v.organization_id = u.organization_id
                    /\ \/ \E e \in terms.filter_entities : ILike(r.text, e)
                       \/ \E k \in terms.filter_keywords : ILike(r.text, k)),
                LAMBDA r : r.start_time),
         limit * 5)

\* the score of a candidate row
SearchScore(terms, segment) ==
    3 * Cardinality({e \in terms.entities : Contains(Lower(segment.text), Lower(e))})
    + Cardinality({k \in terms.keywords : Contains(Lower(segment.text), k)})

\* scored_segments without the sort
ScoredSegmentsUnsorted(d, u, terms, limit) ==
    SelectSeq(SearchCandidates(d, u, terms, limit),
              LAMBDA r : SearchScore(terms, r) > 0)

\* scored_segments after the sort: highest score first, ties in query order
ScoredSegments(d, u, terms, limit) ==
    SortBy(SelectSeq(SearchCandidates(d, u, terms, limit),
                     LAMBDA r : SearchScore(terms, r) > 0),
           LAMBDA r : 0 - SearchScore(terms, r))

RECURSIVE SearchLoopUnchecked(_, _, _, _, _, _, _)
\* the loop of the searcher without its can_access_video test
SearchLoopUnchecked(d, u, scored, idx, seen, srcs, limit) ==
    IF idx > Len(scored) THEN srcs
    ELSE
    LET segment == scored[idx]
        key == <<segment.video_id, Floor(segment.start_time)>>
        video == VideoOf(d, segment)
    IN  IF key \in seen THEN SearchLoopUnchecked(d, u, scored, idx + 1, seen, srcs, limit)
        ELSE IF Len(srcs) + 1 >= limit * 3
             THEN Append(srcs, MessageSource(video, segment))
        ELSE SearchLoopUnchecked(d, u, scored, idx + 1, seen \cup {key},
                                 Append(srcs, MessageSource(video, segment)), limit)

RECURSIVE SearchLoop(_, _, _, _, _, _, _)
SearchLoop(d, u, scored, idx, seen, srcs, limit) ==
    IF idx > Len(scored) THEN srcs
    ELSE
    LET segment == scored[idx]
        key == <<segment.video_id, Floor(segment.start_time)>>
        video == VideoOf(d, segment)
    IN  IF key \in seen THEN SearchLoop(d, u, scored, idx + 1, seen, srcs, limit)
        ELSE IF ~can_access_video(u, video, d)
             THEN SearchLoop(d, u, scored, idx + 1, seen \cup {key}, srcs, limit)
        ELSE IF Len(srcs) + 1 >= limit * 3
             THEN Append(srcs, MessageSource(video, segment))
        ELSE SearchLoop(d, u, scored, idx + 1, seen \cup {key},
                        Append(srcs, MessageSource(video, segment)), limit)

\* _search_sources_from_answer(answer, query, current_user, db), with the
\* search terms it extracted
SearchSourcesFromAnswer(d, u, terms) ==
    IF terms.entities = {} /\ terms.keywords = {} THEN <<>>
    ELSE SearchLoop(d, u, ScoredSegments(d, u, terms, SearchLimit), 1, {}, <<>>,
                    SearchLimit)

--------------------------------------------------------------------------
(* _search_videos_by_query *)

\* [k.strip() for k in query.lower().split() if len(k) > 2]
FallbackKeywords(query) ==
    SelectSeq(Split(Lower(query)), LAMBDA k : Len(k) > 2)

RECURSIVE FallbackLoop(_, _, _, _, _, _, _)
FallbackLoop(d, u, rows, idx, seen_videos, srcs, limit) ==
    IF idx > Len(rows) THEN srcs
    ELSE
    LET segment == rows[idx]
        video == VideoOf(d, segment)
    IN  IF segment.video_id \in seen_videos
        THEN FallbackLoop(d, u, rows, idx + 1, seen_videos, srcs, limit)
        ELSE IF ~can_access_video(u, video, d)
             THEN FallbackLoop(d, u, rows, idx + 1,
                               seen_videos \cup {segment.video_id}, srcs, limit)
        ELSE IF Len(srcs) + 1 >= limit
             THEN Append(srcs, MessageSource(video, segment))
        ELSE FallbackLoop(d, u, rows, idx + 1, seen_videos \cup {segment.video_id},
                          Append(srcs, MessageSource(video, segment)), limit)

\* _search_videos_by_query(query, current_user, db)
SearchVideosByQuery(d, u, query) ==
    LET keywords == FallbackKeywords(query)
        rows == Take(SelectSeq(d.segments, LAMBDA r :
                        /\ \E v \in d.videos : v.id = r.video_id
                                               /\ v.organization_id = u.organization_id
                        /\ \E i \in DOMAIN Take(keywords, 3) : ILike(r.text, keywords[i])),
                     SearchLimit * 3)
    IN  IF keywords = <<>> THEN <<>>
        ELSE FallbackLoop(d, u, rows, 1, {}, <<>>, SearchLimit)

--------------------------------------------------------------------------
(* _filter_relevant_sources *)

Greetings == {"hi", "hello", "hej", "hei", "hey", "hallo", "hallo der", "hei der",
              "heisann"}

GenericResponses ==
    {"kan hjelpe", "hjelpe deg", "hjelpe deg med", "assist", "help you",
     "hva kan jeg hjelpe", "hva kan jeg hjelpe deg", "hva kan jeg hjelpe deg med",
     "hvordan kan jeg", "hvordan kan jeg hjelpe", "how can i help"}

GenericQueries == {"hi", "hello", "hej", "hei", "hey", "hallo", "hola"}

FilterStopwords ==
    {"som", "det", "er", "og", "har", "kan", "for", "med", "den", "til", "der",
     "sitt", "sin", "sine", "han", "hun", "de", "en", "et", "av", "ved", "om",
     "i", "jobb", "arbeid", "hva", "hvem", "hvor", "hvorfor", "hvordan", "du",
     "deg", "din", "ditt", "meg", "seg", "oss", "dere", "jeg", "vi"}

is_greeting(ans) == \E g \in Greetings : Contains(Strip(Lower(ans)), g)

is_generic(ans) == \E g \in GenericResponses : Contains(Strip(Lower(ans)), g)

is_short_query(query) == Len(Split(query)) <= 2

is_generic_query(query) == Strip(Lower(query)) \in GenericQueries

\* the filter's conversational test without its greeting return
IsConversationalShortAnswerOnly(ans, query) ==
    Len(Split(ans)) <= 5 /\ is_generic(ans)

\* the two early returns of the filter for conversational turns
IsConversational(ans, query) ==
    \/ (is_greeting(ans) \/ is_generic(ans))
       /\ (is_short_query(query) \/ is_generic_query(query))
    \/ Len(Split(ans)) <= 5 /\ is_generic(ans)

\* all_entities of the filter
FilterEntities(ans, query) == Range(FindEntities(ans)) \cup Range(FindEntities(query))

\* all_keywords of the filter
FilterKeywords(ans, query) ==
    Range(Keywords(ans, FilterStopwords)) \cup Range(Keywords(query, FilterStopwords))

\* a score that gives an entity the weight of a keyword
RelevanceScoreUnweighted(source, ans, query) ==
    LET text == Lower(source.text)
        keyword_matches ==
            Cardinality({k \in FilterKeywords(ans, query) : Contains(text, k)})
    IN  Cardinality({e \in FilterEntities(ans, query) : Contains(text, Lower(e))})
        + (IF keyword_matches >= 2 THEN keyword_matches ELSE 0)
        + (IF /\ Len(Split(query)) > 3
              /\ Count(Split(query),
                       LAMBDA w : Len(w) > 3 /\ Contains(text, Lower(w))) >= 2
           THEN 2 ELSE 0)

\* relevance_score of a source
RelevanceScore(source, ans, query) ==
    LET text == Lower(source.text)
        entity_matches ==
            Cardinality({e \in FilterEntities(ans, query) : Contains(text, Lower(e))})
        keyword_matches ==
            Cardinality({k \in FilterKeywords(ans, query) : Contains(text, k)})
        query_term_matches ==
            Count(Split(query), LAMBDA w : Len(w) > 3 /\ Contains(text, Lower(w)))
    IN  3 * entity_matches
        + (IF keyword_matches >= 2 THEN keyword_matches ELSE 0)
        + (IF Len(Split(query)) > 3 /\ query_term_matches >= 2 THEN 2 ELSE 0)

\* _filter_relevant_sources(sources, answer, query)
FilterRelevantSources(srcs, ans, query) ==
    IF srcs = <<>> THEN <<>>
    ELSE IF IsConversational(ans, query) THEN <<>>
    ELSE IF FilterEntities(ans, query) = {} /\ Cardinality(FilterKeywords(ans, query)) < 1
         THEN <<>>
    ELSE SelectSeq(srcs, LAMBDA x : RelevanceScore(x, ans, query) >= 2)

--------------------------------------------------------------------------
(* The merge policy of send_message *)

ValidationStopwords ==
    {"som", "det", "er", "og", "har", "kan", "for", "med", "den", "til", "der",
     "sitt", "sin", "sine"}

RECURSIVE MergeLoop(_, _, _)
\* appends to merged the sources of srcs whose key is not in merged yet
MergeLoop(srcs, idx, merged) ==
    IF idx > Len(srcs) THEN merged
    ELSE IF SourceKey(srcs[idx]) \in {SourceKey(merged[i]) : i \in DOMAIN merged}
         THEN MergeLoop(srcs, idx + 1, merged)
    ELSE MergeLoop(srcs, idx + 1, Append(merged, srcs[idx]))

\* a merge that puts the header-based sources first
MergeSourcesHeaderFirst(answer_based, header_based) ==
    MergeLoop(answer_based, 1, MergeLoop(header_based, 1, <<>>))

\* a merge that keeps every source of both lists
MergeSourcesKeepAll(answer_based, header_based) ==
    answer_based \o header_based

\* combined_sources: the answer-based sources, then the header-based ones
MergeSources(answer_based, header_based) ==
    MergeLoop(header_based, 1, MergeLoop(answer_based, 1, <<>>))

\* relevant_source_count of the validation branch
RelevantSourceCount(srcs, ans) ==
    LET answer_entities == FindEntities(ans)
        answer_keywords == Keywords(ans, ValidationStopwords)
    IN  Count(srcs, LAMBDA x :
            \/ \E i \in DOMAIN answer_entities :
                   Contains(Lower(x.text), Lower(answer_entities[i]))
            \/ Count(answer_keywords, LAMBDA k : Contains(Lower(x.text), k)) >= 2)

\* the condition under which the validation branch searches again
NeedsAnswerSearch(srcs, ans) ==
    /\ 2 * RelevantSourceCount(srcs, ans) < Len(srcs)
    /\ FindEntities(ans) # <<>> \/ Keywords(ans, ValidationStopwords) # <<>>

\* a fallback condition that looks at the answer-based sources only
UsesFallbackIgnoringHeaders(header_based, answer_based) ==
    ~(Len(answer_based) > 0)

\* the condition of the elif branch: neither path found a source
UsesFallback(header_based, answer_based) ==
    ~(Len(answer_based) > 0) /\ Len(header_based) = 0

\* the value of sources after the if / elif / else of send_message that follows
\* the answer-based search
CandidateSources(d, u, terms, header_based, answer_based, ans, query) ==
    IF Len(answer_based) > 0 THEN MergeSources(answer_based, header_based)
    ELSE IF UsesFallback(header_based, answer_based) THEN SearchVideosByQuery(d, u, query)
    ELSE IF NeedsAnswerSearch(header_based, ans)
              /\ Len(SearchSourcesFromAnswer(d, u, terms)) > 0
         THEN SearchSourcesFromAnswer(d, u, terms)
    ELSE header_based

--------------------------------------------------------------------------
(* _add_context_to_sources *)

ContextTolerance == 5

ContextSegments == 2

RECURSIVE Join(_, _)
\* sep.join(parts)
Join(parts, sep) ==
    IF parts = <<>> THEN ""
    ELSE IF Len(parts) = 1 THEN parts[1]
    ELSE parts[1] \o sep \o Join(Tail(parts), sep)

Reverse(s) == [i \in 1..Len(s) |-> s[Len(s) + 1 - i]]

Texts(rows) == [i \in DOMAIN rows |-> rows[i].text]

\* the segment a source is enriched from: one that starts within 0.5s of the
\* source, else the one that starts nearest to it; <<>> when the video has none
ContextSegment(d, source) ==
    LET near == FirstSegment(d, LAMBDA r :
                    /\ r.video_id = source.video_id
                    /\ r.start_time >= source.timestamp - ContextTolerance
                    /\ r.start_time <= source.timestamp + ContextTolerance)
        closest == SortBy(SelectSeq(d.segments, LAMBDA r : r.video_id = source.video_id),
                          LAMBDA r : Abs(r.start_time - source.timestamp))
    IN  IF near # <<>> THEN near ELSE Take(closest, 1)

\* context_parts with the previous segments in the order of the query,
\* latest first
ContextTextLatestFirst(d, segment) ==
    LET previous_segments ==
            Take(SortBy(SelectSeq(d.segments, LAMBDA r :
                            /\ r.video_id = segment.video_id
                            /\ r.start_time < segment.start_time),
                        LAMBDA r : 0 - r.start_time),
                 ContextSegments)
        next_segments ==
            Take(SortBy(SelectSeq(d.segments, LAMBDA r :
                            /\ r.video_id = segment.video_id
                            /\ r.start_time > segment.start_time),
                        LAMBDA r : r.start_time),
                 ContextSegments)
    IN  Join((IF previous_segments # <<>>
              THEN <<"...">> \o Texts(previous_segments) ELSE <<>>)
             \o <<"[MAIN SEGMENT: " \o segment.text \o "]">>
             \o (IF next_segments # <<>>
                 THEN Texts(next_segments) \o <<"...">> ELSE <<>>),
             " ")

\* context_parts joined: the text put in the place of the source's text
ContextText(d, segment) ==
    LET previous_segments ==
            Take(SortBy(SelectSeq(d.segments, LAMBDA r :
                            /\ r.video_id = segment.video_id
                            /\ r.start_time < segment.start_time),
                        LAMBDA r : 0 - r.start_time),
                 ContextSegments)
        next_segments ==
            Take(SortBy(SelectSeq(d.segments, LAMBDA r :
                            /\ r.video_id = segment.video_id
                            /\ r.start_time > segment.start_time),
                        LAMBDA r : r.start_time),
                 ContextSegments)
    IN  Join((IF previous_segments # <<>>
              THEN <<"...">> \o Texts(Reverse(previous_segments)) ELSE <<>>)
             \o <<"[MAIN SEGMENT: " \o segment.text \o "]">>
             \o (IF next_segments # <<>>
                 THEN Texts(next_segments) \o <<"...">> ELSE <<>>),
             " ")

\* _add_context_to_sources(sources, current_user, db)
AddContextToSources(d, srcs) ==
    [i \in DOMAIN srcs |->
        IF ContextSegment(d, srcs[i]) # <<>>
        THEN [srcs[i] EXCEPT !.text = ContextText(d, ContextSegment(d, srcs[i])[1])]
        ELSE srcs[i]]

--------------------------------------------------------------------------
(* _post_process_answer_with_context *)

\* stands for the fence of three backquotes, a character that the strings of
\* this module cannot hold
Fence == "~~~"

RECURSIVE SplitLinesAcc(_, _, _, _)
SplitLinesAcc(s, i, cur, acc) ==
    IF i > Len(s) THEN Append(acc, cur)
    ELSE IF Ch(s, i) = "\n" THEN SplitLinesAcc(s, i + 1, "", Append(acc, cur))
    ELSE SplitLinesAcc(s, i + 1, cur \o Ch(s, i), acc)

\* s.split("\n")
SplitLines(s) == SplitLinesAcc(s, 1, "", <<>>)

\* the clean-up of the text the correction model returned
CleanCorrection(text) ==
    LET corrected == Strip(text)
    IN  IF StartsWith(corrected, Fence)
        THEN Join(SelectSeq(SplitLines(corrected),
                            LAMBDA line : ~StartsWith(Strip(line), Fence)),
                  "\n")
        ELSE corrected

\* a corrector that loses the answer when the correction model raises
PostProcessAnswerLosingAnswer(ans, outcome) ==
    IF outcome.raised THEN "" ELSE CleanCorrection(outcome.text)

\* _post_process_answer_with_context(answer, sources, query), given what the
\* call of the correction model did: raised, or returned a text
PostProcessAnswer(ans, outcome) ==
    IF outcome.raised THEN ans ELSE CleanCorrection(outcome.text)

--------------------------------------------------------------------------
(* The data the model runs on *)

OrgA == "org-a"
OrgB == "org-b"
NoOrg == "none"

V1 == "11111111-aaaa-4aaa-8aaa-111111111111"
V2 == "22222222-bbbb-4bbb-8bbb-222222222222"
V3 == "33333333-cccc-4ccc-8ccc-333333333333"

Row(video_id, segment_id, start_time, text) ==
    [video_id |-> video_id, segment_id |-> segment_id, start_time |-> start_time,
     text |-> text]

\* the rows of video_segments, in two orders of the table
SegmentTables ==
    {<<Row(V3, 0, 0, "Ola Nordmann er sjef hei"),
       Row(V1, 0, 0, "Ola Nordmann er arkivar"),
       Row(V1, 1, 5, "Ola Nordmann liker kaffe"),
       Row(V1, 2, 20, "Kari sier det er kaffe"),
       Row(V2, 0, 0, "Ola Nordmann bor i Oslo, hei")>>,
     <<Row(V2, 0, 0, "Ola Nordmann bor i Oslo, hei"),
       Row(V1, 2, 20, "Kari sier det er kaffe"),
       Row(V1, 1, 5, "Ola Nordmann liker kaffe"),
       Row(V1, 0, 0, "Ola Nordmann er arkivar"),
       Row(V3, 0, 0, "Ola Nordmann er sjef hei")>>}

VideoRow(id, organization_id, security_level, title) ==
    [id |-> id, organization_id |-> organization_id,
     security_level |-> security_level, title |-> title]

\* the databases a turn can run on: V2 is internal, or secret with or without
\* a permission row for the user u1
Databases ==
    {[videos |-> {VideoRow(V1, OrgA, "public", "Intro"),
                  VideoRow(V2, OrgA, level[1], "Styremote"),
                  VideoRow(V3, OrgB, "public", "Annet")},
      segments |-> table,
      permissions |-> IF level[2] THEN {[video_id |-> V2, user_id |-> "u1"]} ELSE {}] :
        level \in {<<"internal", FALSE>>, <<"secret", FALSE>>, <<"secret", TRUE>>},
        table \in SegmentTables}

Users ==
    {[id |-> "u1", organization_id |-> OrgA, role |-> r] :
        r \in {"user", "org_admin", "super_admin"}}
    \cup {[id |-> "u1", organization_id |-> NoOrg, role |-> "user"]}

Queries == {"hei", "Hvem er Ola Nordmann", "hva er det"}

Answers == {"Hei! Hvordan kan jeg hjelpe deg?", "Ola Nordmann er arkivar", "nei",
            "Vet ikke"}

Header(video_id, start, segment_id, text) ==
    [video_id |-> video_id, start |-> start, segment_id |-> segment_id, text |-> text]

VectorContexts ==
    {<<>>,
     <<Header(V1, "0.0", "0", " Ola Nordmann er arkivar"),
       Header(V2, "90.0", "x", " Ola Nordmann bor i Oslo")>>,
     <<Header("not-a-video-id", "0.0", "0", " hva er dette"),
       Header(V1, "90.0", "2", " Ola Nordmann nevnes her")>>}

MixContexts ==
    {<<>>,
     <<Header(V1, "0.5", "1", " Ola Nordmann liker kaffe"),
       Header(V3, "0.0", "0", " Ola Nordmann er sjef")>>}

\* what the call of the correction model can do
CorrectionOutcomes ==
    {[raised |-> TRUE, text |-> ""],
     [raised |-> FALSE, text |-> " Ola Nordmann er arkivar. "],
     [raised |-> FALSE, text |-> "~~~\nOla Nordmann er arkivar\n~~~"]}

ConversationIds == {"", "c1", "c2"}

NewConversationId == "c3"

NoTerms == [entities |-> {}, keywords |-> {}, filter_entities |-> {},
            filter_keywords |-> {}]

--------------------------------------------------------------------------
(* ConversationService *)

TitleLimit == 50

HistoryLimit == 10

\* a lookup of the conversation by its id alone
get_conversation_of_any_user(convs, conversation_id, u) ==
    {c \in convs : c.id = conversation_id}

\* ConversationService.get_conversation(conversation_id, user): the matching
\* rows, none standing for None
get_conversation(convs, conversation_id, u) ==
    {c \in convs : /\ c.id = conversation_id
                   /\ c.user_id = u.id
                   /\ c.organization_id = u.organization_id}

\* the title of a conversation created from its first message
AutoTitle(message) ==
    IF Len(message) > TitleLimit THEN SubSeq(message, 1, TitleLimit) \o "..."
    ELSE message

\* ConversationService.create_conversation(user, title)
create_conversation(u, title) ==
    [id |-> NewConversationId, user_id |-> u.id,
     organization_id |-> u.organization_id, title |-> title]

\* an add_message whose row is never committed
add_message_uncommitted(msgs, conversation_id, role, content, srcs) == msgs

\* ConversationService.add_message(conversation, role, content, sources):
\* the messages table after the commit
add_message(msgs, conversation_id, role, content, srcs) ==
    Append(msgs, [conversation_id |-> conversation_id, role |-> role,
                  content |-> content, sources |-> srcs])

\* ConversationService.get_conversation_history_for_lightrag
get_conversation_history_for_lightrag(msgs, conversation_id, max_messages) ==
    LET rows == Take(SelectSeq(msgs, LAMBDA m : m.conversation_id = conversation_id),
                     max_messages)
    IN  [i \in DOMAIN rows |-> [role |-> rows[i].role, content |-> rows[i].content]]

\* ConversationService.get_messages(conversation_id, user) without a limit
get_messages(convs, msgs, conversation_id, u) ==
    IF get_conversation(convs, conversation_id, u) = {} THEN <<>>
    ELSE SelectSeq(msgs, LAMBDA m : m.conversation_id = conversation_id)

\* ConversationService.update_conversation_title(conversation_id, user, title):
\* the conversations table after the call; unchanged where it returns None
update_conversation_title(convs, conversation_id, u, title) ==
    {IF c \in get_conversation(convs, conversation_id, u)
     THEN [c EXCEPT !.title = title] ELSE c : c \in convs}

\* ConversationService.delete_conversation(conversation_id, user): the
\* conversations and the messages after the call; the messages of a deleted
\* conversation go with it
delete_conversation(convs, msgs, conversation_id, u) ==
    LET found == get_conversation(convs, conversation_id, u)
    IN  [conversations |-> convs \ found,
         messages |-> SelectSeq(msgs, LAMBDA m :
                          \A c \in found : m.conversation_id # c.id)]

InitialConversations ==
    {[id |-> "c1", user_id |-> "u1", organization_id |-> OrgA, title |-> "hei"],
     [id |-> "c2", user_id |-> "u2", organization_id |-> OrgA, title |-> "hallo"]}

InitialMessages ==
    <<[conversation_id |-> "c1", role |-> "user", content |-> "hei", sources |-> <<>>],
      [conversation_id |-> "c1", role |-> "assistant",
       content |-> "Hei! Hvordan kan jeg hjelpe deg?", sources |-> <<>>],
      [conversation_id |-> "c2", role |-> "user", content |-> "hallo",
       sources |-> <<>>]>>

--------------------------------------------------------------------------
(* send_message *)

NoResponse == [status |-> 0, answer |-> "", sources |-> <<>>]

\* raise HTTPException(status_code=code)
HttpError(code) == [status |-> code, answer |-> "", sources |-> <<>>]

\* lightrag_context_vectors + "\n\n" + lightrag_context_mix
CombinedContext(vectors, mix) ==
    IF vectors = <<>> THEN mix
    ELSE [vectors EXCEPT ![Len(vectors)].text = @ \o "\n\n"] \o mix

\* the except clause of send_message: the turn ends in one HTTP 500
ChatFailed ==
    /\ pc' = "failed"
    /\ log' = Append(log, "error")
    /\ response' = HttpError(500)

\* send_message(chat_request) with the message and the conversation_id of
\* the request, up to its first call of the retrieval backend
Receive(message, conversation_id) ==
    /\ pc = "start"
    /\ request' = [message |-> message, conversation_id |-> conversation_id]
    /\ IF user.organization_id = NoOrg
       THEN /\ response' = HttpError(400)
            /\ pc' = "rejected"
            /\ UNCHANGED <<conversations, messages, conversation, history, log>>
       ELSE IF /\ conversation_id # ""
               /\ get_conversation(conversations, conversation_id, user) = {}
       THEN /\ response' = HttpError(404)
            /\ pc' = "rejected"
            /\ UNCHANGED <<conversations, messages, conversation, history, log>>
       ELSE LET created == create_conversation(user, AutoTitle(message))
                conv == IF conversation_id # "" THEN conversation_id ELSE created.id
                stored == add_message(messages, conv, "user", message, <<>>)
                hist == get_conversation_history_for_lightrag(stored, conv,
                                                              HistoryLimit)
            IN  /\ conversations' = IF conversation_id # "" THEN conversations
                                    ELSE conversations \cup {created}
                /\ conversation' = conv
                /\ messages' = stored
                /\ history' = IF hist # <<>> THEN SubSeq(hist, 1, Len(hist) - 1)
                              ELSE hist
                /\ log' = Append(log, "user_message")
                /\ pc' = "vectors"
                /\ UNCHANGED response
    /\ UNCHANGED <<db, user, ctx_vectors, ctx_mix, header_sources, generated_answer,
                   answer, search_terms, answer_sources, sources>>

\* a request with one of the messages and conversation ids of the model
ReceiveMessage ==
    \E message \in Queries, conversation_id \in ConversationIds :
        Receive(message, conversation_id)

\* search_async(mode="naive", only_need_context=True): returns a context or raises
FetchVectorContext ==
    /\ pc = "vectors"
    /\ \/ \E context \in VectorContexts :
             /\ ctx_vectors' = context
             /\ log' = Append(log, "search_naive")
             /\ pc' = "mix"
             /\ UNCHANGED response
       \/ ChatFailed /\ UNCHANGED ctx_vectors
    /\ UNCHANGED <<db, user, conversations, messages, request, conversation, history,
                   ctx_mix, header_sources, generated_answer, answer, search_terms,
                   answer_sources, sources>>

\* search_async(mode="mix", only_need_context=True): returns a context or raises
FetchMixContext ==
    /\ pc = "mix"
    /\ \/ \E context \in MixContexts :
             /\ ctx_mix' = context
             /\ log' = Append(log, "search_mix")
             /\ pc' = "parse"
             /\ UNCHANGED response
       \/ ChatFailed /\ UNCHANGED ctx_mix
    /\ UNCHANGED <<db, user, conversations, messages, request, conversation, history,
                   ctx_vectors, header_sources, generated_answer, answer, search_terms,
                   answer_sources, sources>>

\* sources = await _parse_sources_from_lightrag(combined_context, ...)
ParseSources ==
    /\ pc = "parse"
    /\ header_sources' = ParseSourcesFromLightrag(db, user,
                             CombinedContext(ctx_vectors, ctx_mix), request.message)
    /\ sources' = header_sources'
    /\ pc' = "answer"
    /\ UNCHANGED <<db, user, conversations, messages, request, conversation, history,
                   ctx_vectors, ctx_mix, generated_answer, answer, search_terms,
                   answer_sources, log, response>>

\* the generation of the answer followed at once by the combination of the
\* source lists, without the answer-based search
GenerateAnswerSkippingSearch ==
    /\ pc = "answer"
    /\ \/ \E text \in Answers :
             /\ answer' = text
             /\ generated_answer' = text
             /\ log' = Append(log, "search_answer")
             /\ pc' = "combine"
             /\ UNCHANGED response
       \/ ChatFailed /\ UNCHANGED <<answer, generated_answer>>
    /\ UNCHANGED <<db, user, conversations, messages, request, conversation, history,
                   ctx_vectors, ctx_mix, header_sources, search_terms, answer_sources,
                   sources>>

\* search_async(mode="mix", only_need_context=False): returns the answer or raises
GenerateAnswer ==
    /\ pc = "answer"
    /\ \/ \E text \in Answers :
             /\ answer' = text
             /\ generated_answer' = text
             /\ log' = Append(log, "search_answer")
             /\ pc' = "search"
             /\ UNCHANGED response
       \/ ChatFailed /\ UNCHANGED <<answer, generated_answer>>
    /\ UNCHANGED <<db, user, conversations, messages, request, conversation, history,
                   ctx_vectors, ctx_mix, header_sources, search_terms, answer_sources,
                   sources>>

\* answer_based_sources = await _search_sources_from_answer(...)
SearchFromAnswer ==
    /\ pc = "search"
    /\ \E terms \in SearchTerms(answer, request.message) :
          /\ search_terms' = terms
          /\ answer_sources' = SearchSourcesFromAnswer(db, user, terms)
    /\ pc' = "combine"
    /\ UNCHANGED <<db, user, conversations, messages, request, conversation, history,
                   ctx_vectors, ctx_mix, header_sources, generated_answer, answer,
                   sources, log, response>>

\* the if / elif / else that combines the two source lists
CombineSources ==
    /\ pc = "combine"
    /\ sources' = CandidateSources(db, user, search_terms, header_sources,
                                   answer_sources, answer, request.message)
    /\ log' = IF UsesFallback(header_sources, answer_sources)
              THEN Append(log, "fallback_search") ELSE log
    /\ pc' = "filter"
    /\ UNCHANGED <<db, user, conversations, messages, request, conversation, history,
                   ctx_vectors, ctx_mix, header_sources, generated_answer, answer,
                   search_terms, answer_sources, response>>

\* the filter followed by enrichment and correction whatever it returns
FilterSourcesAlwaysCorrecting ==
    /\ pc = "filter"
    /\ sources' = FilterRelevantSources(sources, answer, request.message)
    /\ pc' = "enrich"
    /\ UNCHANGED <<db, user, conversations, messages, request, conversation, history,
                   ctx_vectors, ctx_mix, header_sources, generated_answer, answer,
                   search_terms, answer_sources, log, response>>

\* sources = await _filter_relevant_sources(sources, lightrag_answer, message)
FilterSources ==
    /\ pc = "filter"
    /\ sources' = FilterRelevantSources(sources, answer, request.message)
    /\ pc' = IF sources' # <<>> THEN "enrich" ELSE "store"
    /\ UNCHANGED <<db, user, conversations, messages, request, conversation, history,
                   ctx_vectors, ctx_mix, header_sources, generated_answer, answer,
                   search_terms, answer_sources, log, response>>

\* sources = await _add_context_to_sources(sources, current_user, db)
AddContext ==
    /\ pc = "enrich"
    /\ sources' = AddContextToSources(db, sources)
    /\ pc' = "correct"
    /\ UNCHANGED <<db, user, conversations, messages, request, conversation, history,
                   ctx_vectors, ctx_mix, header_sources, generated_answer, answer,
                   search_terms, answer_sources, log, response>>

\* lightrag_answer = await _post_process_answer_with_context(...)
PostProcess ==
    /\ pc = "correct"
    /\ \E outcome \in CorrectionOutcomes :
          /\ answer' = PostProcessAnswer(answer, outcome)
          /\ log' = Append(log, IF outcome.raised THEN "correction_raised"
                                ELSE "correction")
    /\ pc' = "store"
    /\ UNCHANGED <<db, user, conversations, messages, request, conversation, history,
                   ctx_vectors, ctx_mix, header_sources, generated_answer, search_terms,
                   answer_sources, sources, response>>

\* conversation_service.add_message(role="assistant", ...) and the response
StoreAssistantMessage ==
    /\ pc = "store"
    /\ messages' = add_message(messages, conversation, "assistant", answer, sources)
    /\ log' = Append(log, "assistant_message")
    /\ response' = [status |-> 200, answer |-> answer, sources |-> sources]
    /\ pc' = "persisted"
    /\ UNCHANGED <<db, user, conversations, request, conversation, history,
                   ctx_vectors, ctx_mix, header_sources, generated_answer, answer,
                   search_terms, answer_sources, sources>>

TurnInit ==
    /\ db \in Databases
    /\ user \in Users
    /\ conversations = InitialConversations
    /\ messages = InitialMessages
    /\ pc = "start"
    /\ request = [message |-> "", conversation_id |-> ""]
    /\ conversation = ""
    /\ history = <<>>
    /\ ctx_vectors = <<>>
    /\ ctx_mix = <<>>
    /\ header_sources = <<>>
    /\ generated_answer = ""
    /\ answer = ""
    /\ search_terms = NoTerms
    /\ answer_sources = <<>>
    /\ sources = <<>>
    /\ log = <<>>
    /\ response = NoResponse

--------------------------------------------------------------------------
(* LightRAGService.get_rag_instance, called concurrently on one event loop. *)
(* A coroutine runs without interruption from one await to the next, so    *)
(* each action below is the code between two awaits.                       *)

NumCallers == 3

Callers == 1..NumCallers

Organizations == {OrgA, OrgB}

NotCalled == [pc |-> "idle", organization_id |-> "", rag |-> 0, result |-> 0]

\* self._instances[organization_id] = rag
Register(registry, organization_id, rag) ==
    [o \in DOMAIN registry \cup {organization_id} |->
        IF o = organization_id THEN rag ELSE registry[o]]

\* get_rag_instance(organization_id) up to await rag.initialize_storages():
\* the membership test and, when it fails, the construction of a LightRAG
GetRagInstance(c) ==
    /\ caller[c].pc = "idle"
    /\ \E organization_id \in Organizations :
          IF organization_id \in DOMAIN instances
          THEN /\ caller' = [caller EXCEPT ![c] =
                                [pc |-> "done", organization_id |-> organization_id,
                                 rag |-> 0, result |-> instances[organization_id]]]
               /\ UNCHANGED constructed
          ELSE /\ constructed' = Append(constructed, organization_id)
               /\ caller' = [caller EXCEPT ![c] =
                                [pc |-> "initialize_storages",
                                 organization_id |-> organization_id,
                                 rag |-> Len(constructed) + 1, result |-> 0]]
    /\ UNCHANGED <<instances, initialized, pipeline_inits>>
    /\ UNCHANGED <<shutdownVars, endpointVars>>

\* from the return of rag.initialize_storages() to the next await or the return
StoragesInitialized(c) ==
    /\ caller[c].pc = "initialize_storages"
    /\ initialized' = initialized \cup {caller[c].rag}
    /\ IF DOMAIN instances = {}
       THEN /\ caller' = [caller EXCEPT ![c].pc = "initialize_pipeline_status"]
            /\ UNCHANGED instances
       ELSE /\ instances' = Register(instances, caller[c].organization_id, caller[c].rag)
            /\ caller' = [caller EXCEPT ![c].pc = "done",
                                        ![c].result = caller[c].rag]
    /\ UNCHANGED <<constructed, pipeline_inits>>
    /\ UNCHANGED <<shutdownVars, endpointVars>>

\* from the return of initialize_pipeline_status() to the return of the call
PipelineStatusInitialized(c) ==
    /\ caller[c].pc = "initialize_pipeline_status"
    /\ pipeline_inits' = pipeline_inits + 1
    /\ instances' = Register(instances, caller[c].organization_id, caller[c].rag)
    /\ caller' = [caller EXCEPT ![c].pc = "done", ![c].result = caller[c].rag]
    /\ UNCHANGED <<constructed, initialized>>
    /\ UNCHANGED <<shutdownVars, endpointVars>>

\* no call of shutdown_lightrag_service has been made
NoShutdown ==
    [pc |-> "idle", calls |-> 0, registry |-> <<>>, current |-> "", pending |-> {}]

\* the state get_lightrag_service leaves at startup: the global is set and
\* initialize_service has run
ServiceRunning ==
    /\ lightrag_service = "LightRAGService"
    /\ service_initialized = TRUE
    /\ shutdown = NoShutdown
    /\ finalize_calls = <<>>

\* can_access_video was not called
NoAccessResult == [video |-> "", granted |-> FALSE]

\* no operation on a conversation has returned
NoConversationResponse ==
    [operation |-> "", conversation_id |-> "", not_found |-> FALSE, body |-> <<>>]

\* no request of search_videos was received
NoSearchRequest == [security_level_filter |-> {}]

NoSearchResponse == [status |-> 0, results |-> <<>>]

SearchIdle ==
    /\ search_pc = "idle"
    /\ search_request = NoSearchRequest
    /\ lightrag_context = <<>>
    /\ search_response = NoSearchResponse

\* no request of the other endpoints is in progress
EndpointsIdle ==
    /\ SearchIdle
    /\ conversation_response = NoConversationResponse
    /\ requests = 0
    /\ video_status \in {"none", "completed"}
    /\ video_status = IF db.videos = {} THEN "none" ELSE "completed"
    /\ tasks = <<>>
    /\ video_response = 0
    /\ access_result = NoAccessResult
    /\ accessible = <<>>

RagIdle ==
    /\ instances = <<>>
    /\ constructed = <<>>
    /\ initialized = {}
    /\ pipeline_inits = 0
    /\ caller = <<>>
    /\ ServiceRunning
    /\ EndpointsIdle

RagInit ==
    /\ instances = <<>>
    /\ constructed = <<>>
    /\ initialized = {}
    /\ pipeline_inits = 0
    /\ caller = [c \in Callers |-> NotCalled]
    /\ ServiceRunning
    /\ EndpointsIdle

\* no chat turn is in progress
TurnIdle ==
    /\ db = CHOOSE d \in Databases : TRUE
    /\ user = CHOOSE u \in Users : u.organization_id = OrgA /\ u.role = "user"
    /\ conversations = InitialConversations
    /\ messages = InitialMessages
    /\ pc = "start"
    /\ request = [message |-> "", conversation_id |-> ""]
    /\ conversation = ""
    /\ history = <<>>
    /\ ctx_vectors = <<>>
    /\ ctx_mix = <<>>
    /\ header_sources = <<>>
    /\ generated_answer = ""
    /\ answer = ""
    /\ search_terms = NoTerms
    /\ answer_sources = <<>>
    /\ sources = <<>>
    /\ log = <<>>
    /\ response = NoResponse

InitRag == TurnIdle /\ RagInit

NextRag ==
    \/ \E c \in Callers : GetRagInstance(c) /\ UNCHANGED turnVars
    \/ \E c \in Callers : StoragesInitialized(c) /\ UNCHANGED turnVars
    \/ \E c \in Callers : PipelineStatusInitialized(c) /\ UNCHANGED turnVars

\* the registry under concurrent get_rag_instance calls
SpecRag == InitRag /\ [][NextRag]_vars

--------------------------------------------------------------------------
(* shutdown_lightrag_service and LightRAGService.finalize_all, called at    *)
(* process teardown, after the requests have ended. Each action is the     *)
(* code between two awaits.                                                *)

MaxShutdownCalls == 2

\* the for loop of finalize_all with the organizations of rest still to
\* visit: the call of finalize_storages on the next instance or, when none is
\* left, the code after the loop and the rest of shutdown_lightrag_service.
\* The registry of the model does not record the order of insertion, so the
\* next organization is any of rest.
FinalizeNext(sd, rest) ==
    IF rest = {}
    THEN /\ instances' = <<>>
         /\ service_initialized' = FALSE
         /\ lightrag_service' = "None"
         /\ shutdown' = [sd EXCEPT !.pc = "idle", !.calls = @ + 1,
                                   !.current = "", !.pending = {}]
    ELSE /\ \E o \in rest :
               shutdown' = [sd EXCEPT !.pc = "finalize_storages", !.current = o,
                                      !.pending = rest \ {o}]
         /\ UNCHANGED <<instances, service_initialized, lightrag_service>>

\* shutdown_lightrag_service up to its first await; shutdown.registry keeps
\* the registry as the call found it
ShutdownLightragService ==
    /\ shutdown.pc = "idle"
    /\ shutdown.calls < MaxShutdownCalls
    /\ \A c \in Callers : caller[c].pc \in {"idle", "done"}
    /\ IF lightrag_service = "None"
       THEN /\ shutdown' = [shutdown EXCEPT !.calls = @ + 1]
            /\ UNCHANGED <<instances, service_initialized, lightrag_service>>
       ELSE FinalizeNext([shutdown EXCEPT !.registry = instances], DOMAIN instances)
    /\ UNCHANGED <<constructed, initialized, pipeline_inits, caller, finalize_calls>>
    /\ UNCHANGED endpointVars

\* the call of finalize_storages raised, and nothing caught the exception:
\* it leaves finalize_all and shutdown_lightrag_service
FinalizeStoragesReturnedUncaught ==
    /\ shutdown.pc = "finalize_storages"
    /\ \E raised \in BOOLEAN :
          /\ finalize_calls' = Append(finalize_calls,
                                      [rag |-> instances[shutdown.current],
                                       raised |-> raised])
          /\ IF raised
             THEN /\ shutdown' = [shutdown EXCEPT !.pc = "idle", !.calls = @ + 1,
                                                  !.current = "", !.pending = {}]
                  /\ UNCHANGED <<instances, service_initialized, lightrag_service>>
             ELSE FinalizeNext(shutdown, shutdown.pending)
    /\ UNCHANGED <<constructed, initialized, pipeline_inits, caller>>
    /\ UNCHANGED endpointVars

\* from the end of rag.finalize_storages(), by return or by an exception the
\* except clause of the loop catches, to the next await or the return
FinalizeStoragesReturned ==
    /\ shutdown.pc = "finalize_storages"
    /\ \E raised \in BOOLEAN :
          finalize_calls' = Append(finalize_calls,
                                   [rag |-> instances[shutdown.current],
                                    raised |-> raised])
    /\ FinalizeNext(shutdown, shutdown.pending)
    /\ UNCHANGED <<constructed, initialized, pipeline_inits, caller>>
    /\ UNCHANGED endpointVars

InitShutdown == InitRag

\* requests that make get_rag_instance calls, then the teardown
NextShutdown ==
    \/ \E c \in Callers :
          shutdown = NoShutdown /\ GetRagInstance(c) /\ UNCHANGED turnVars
    \/ \E c \in Callers : StoragesInitialized(c) /\ UNCHANGED turnVars
    \/ \E c \in Callers : PipelineStatusInitialized(c) /\ UNCHANGED turnVars
    \/ ShutdownLightragService /\ UNCHANGED turnVars
    \/ FinalizeStoragesReturned /\ UNCHANGED turnVars

SpecShutdown == InitShutdown /\ [][NextShutdown]_vars

Init == TurnInit /\ RagIdle

Next ==
    \/ ReceiveMessage /\ UNCHANGED ragVars
    \/ FetchVectorContext /\ UNCHANGED ragVars
    \/ FetchMixContext /\ UNCHANGED ragVars
    \/ ParseSources /\ UNCHANGED ragVars
    \/ GenerateAnswer /\ UNCHANGED ragVars
    \/ SearchFromAnswer /\ UNCHANGED ragVars
    \/ CombineSources /\ UNCHANGED ragVars
    \/ FilterSources /\ UNCHANGED ragVars
    \/ AddContext /\ UNCHANGED ragVars
    \/ PostProcess /\ UNCHANGED ragVars
    \/ StoreAssistantMessage /\ UNCHANGED ragVars

Spec == Init /\ [][Next]_vars

--------------------------------------------------------------------------
(* _filter_relevant_sources on its own: a turn that stands at the call of   *)
(* the filter with candidates the answer-based search found and no         *)
(* header-based source, so that the merged list is the candidates.         *)

MaxCandidates == 2

FilterTexts ==
    {"Ola Nordmann er arkivar", "Kari sier det er kaffe", "te og kaffe",
     "hvem vet hvor", "en helt annen sak"}

FilterQueries == {"hva er det", "Hvem er Ola Nordmann", "hvem sier hvor kaffe"}

FilterAnswers ==
    {"Hei! Hvordan kan jeg hjelpe deg?", "Ola Nordmann er arkivar",
     "kanskje kaffe", "nei"}

\* a source of video V1 with the given text, at the given second
CandidateSource(text, second) ==
    MessageSource(VideoRow(V1, OrgA, "public", "Intro"),
                  Row(V1, second, 10 * second, text))

\* the candidate lists: up to MaxCandidates sources with different texts
FilterCandidates ==
    {<<>>}
    \cup UNION {{[i \in 1..n |-> CandidateSource(texts[i], i)] :
                    texts \in {t \in [1..n -> FilterTexts] :
                                  \A i, j \in 1..n : t[i] = t[j] => i = j}} :
                n \in 1..MaxCandidates}

InitFilter ==
    /\ db = CHOOSE d \in Databases : TRUE
    /\ user = CHOOSE u \in Users : u.organization_id = OrgA /\ u.role = "user"
    /\ conversations = InitialConversations
    /\ conversation = "c1"
    /\ \E message \in FilterQueries :
          /\ request = [message |-> message, conversation_id |-> "c1"]
          /\ messages = add_message(InitialMessages, "c1", "user", message, <<>>)
    /\ history = <<>>
    /\ ctx_vectors = <<>>
    /\ ctx_mix = <<>>
    /\ header_sources = <<>>
    /\ generated_answer \in FilterAnswers
    /\ answer = generated_answer
    /\ search_terms = NoTerms
    /\ answer_sources \in FilterCandidates
    /\ sources = MergeSources(answer_sources, header_sources)
    /\ pc = "filter"
    /\ log = <<"user_message", "search_naive", "search_mix", "search_answer">>
    /\ response = NoResponse
    /\ RagIdle

NextFilter == FilterSources /\ UNCHANGED ragVars

\* the filter applied to every candidate list, answer and query of the sets above
SpecFilter == InitFilter /\ [][NextFilter]_vars

--------------------------------------------------------------------------
(* _parse_sources_from_lightrag on its own: a turn that stands at the call *)
(* of the resolver, with contexts made of the markers below.               *)

MaxVectorHeaders == 2

\* a video of the user's organization that has no segment
V4 == "44444444-dddd-4ddd-8ddd-444444444444"

\* V1 in capitals, and V1 without its hyphens
V1Upper == "11111111-AAAA-4AAA-8AAA-111111111111"
V1Bare == "11111111aaaa4aaa8aaa111111111111"

ResolverHeaders ==
    {Header(V1, "0.0", "0", " Ola Nordmann er arkivar"),
     Header(V1, "0", "2", " hva skjer"),
     Header(V1, "0.5", "2", " kaffe"),
     Header(V1, "90.0", "2", " Ola Nordmann nevnes her"),
     Header(V1, "90.0", "x", " ingenting"),
     Header(V1Upper, "20.0", "9", " hva er kaffe"),
     Header(V1Bare, "0.0", "0", " hva med Ola Nordmann"),
     Header(V1, "inf", "1", " Ola Nordmann"),
     Header(V1, "nan", "7", " det"),
     Header(V1, "snart", "0", " hva det"),
     Header(V2, "0.0", "0", " Ola Nordmann bor i Oslo"),
     Header(V3, "0.0", "0", " hva sier Ola Nordmann"),
     Header(V4, "0.0", "0", " hva er det")}

ResolverMixContexts ==
    {<<>>,
     <<Header(V1, "90.0", "1", " det sies"),
       Header(V3, "0.0", "0", " Ola Nordmann er sjef")>>}

ResolverQueries == {"hva er det", "er du"}

\* the databases of the resolver: V2 is secret, V4 has no segment
ResolverDatabases ==
    {[videos |-> {VideoRow(V1, OrgA, "public", "Intro"),
                  VideoRow(V2, OrgA, "secret", "Styremote"),
                  VideoRow(V3, OrgB, "public", "Annet"),
                  VideoRow(V4, OrgA, "public", "Tom")},
      segments |-> table,
      permissions |-> {}] : table \in SegmentTables}

\* the sequences over S of length n or less
SeqsUpTo(S, n) == UNION {[1..k -> S] : k \in 0..n}

InitResolver ==
    /\ db \in ResolverDatabases
    /\ user \in {u \in Users : u.organization_id = OrgA /\ u.role # "super_admin"}
    /\ conversations = InitialConversations
    /\ conversation = "c1"
    /\ \E message \in ResolverQueries :
          /\ request = [message |-> message, conversation_id |-> "c1"]
          /\ messages = add_message(InitialMessages, "c1", "user", message, <<>>)
    /\ history = <<>>
    /\ ctx_vectors \in SeqsUpTo(ResolverHeaders, MaxVectorHeaders)
    /\ ctx_mix \in ResolverMixContexts
    /\ header_sources = <<>>
    /\ generated_answer = ""
    /\ answer = ""
    /\ search_terms = NoTerms
    /\ answer_sources = <<>>
    /\ sources = <<>>
    /\ pc = "parse"
    /\ log = <<"user_message", "search_naive", "search_mix">>
    /\ response = NoResponse
    /\ RagIdle

NextResolver == ParseSources /\ UNCHANGED ragVars

\* the resolver applied to every context, query, database and user of the sets above
SpecResolver == InitResolver /\ [][NextResolver]_vars

--------------------------------------------------------------------------
(* _search_sources_from_answer on its own: a turn that stands at the call   *)
(* of the answer-based search, on a segment table large enough for the     *)
(* caps of the query and of the loop to apply.                             *)

MaxSearchRows == 21

SearcherTexts ==
    <<"Ola Nordmann er arkivar", "Kari sier det er kaffe",
      "Ola Nordmann liker kaffe", "hvem vet hvor">>

\* n rows, step tenths of a second apart, row i of the video V2 when i is a
\* multiple of 6 and of V1 otherwise, with the texts above in turn
SearcherSegments(n, step, shift) ==
    [i \in 1..n |->
        Row(IF i % 6 = 0 THEN V2 ELSE V1, i, step * i,
            SearcherTexts[((i + shift) % Len(SearcherTexts)) + 1])]

SearcherDatabases ==
    {[videos |-> {VideoRow(V1, OrgA, "public", "Intro"),
                  VideoRow(V2, OrgA, "secret", "Styremote"),
                  VideoRow(V3, OrgB, "public", "Annet")},
      segments |-> SearcherSegments(n, step, shift),
      permissions |-> {}] :
        n \in (MaxSearchRows - 5)..MaxSearchRows, step \in {8, 10},
        shift \in 0..(Len(SearcherTexts) - 1)}

SearcherQueries == {"hva er det", "hvem sier hvor kaffe"}

SearcherAnswers == {"Ola Nordmann er arkivar", "kanskje kaffe", "nei"}

InitSearcher ==
    /\ db \in SearcherDatabases
    /\ user \in {u \in Users : u.organization_id = OrgA /\ u.role # "super_admin"}
    /\ conversations = InitialConversations
    /\ conversation = "c1"
    /\ \E message \in SearcherQueries :
          /\ request = [message |-> message, conversation_id |-> "c1"]
          /\ messages = add_message(InitialMessages, "c1", "user", message, <<>>)
    /\ history = <<>>
    /\ ctx_vectors = <<>>
    /\ ctx_mix = <<>>
    /\ header_sources = <<>>
    /\ generated_answer \in SearcherAnswers
    /\ answer = generated_answer
    /\ search_terms = NoTerms
    /\ answer_sources = <<>>
    /\ sources = <<>>
    /\ pc = "search"
    /\ log = <<"user_message", "search_naive", "search_mix", "search_answer">>
    /\ response = NoResponse
    /\ RagIdle

NextSearcher == SearchFromAnswer /\ UNCHANGED ragVars

\* the searcher applied to every database, answer, query and user of the sets above
SpecSearcher == InitSearcher /\ [][NextSearcher]_vars

--------------------------------------------------------------------------
(* _add_context_to_sources on its own: a turn that stands at the call of    *)
(* the enrichment with a filtered list of sources, on videos with up to    *)
(* MaxEnrichRows segments.                                                 *)

MaxEnrichRows == 8

MaxEnrichSources == 2

\* the start times, in tenths of a second, of the sources to enrich: some are
\* the start of a segment, some lie between segments, one lies after them all
EnrichTimestamps == {10, 14, 42, 999}

EnrichDatabases ==
    {[videos |-> {VideoRow(V1, OrgA, "public", "Intro"),
                  VideoRow(V2, OrgA, "internal", "Styremote")},
      segments |-> SearcherSegments(n, step, 0),
      permissions |-> {}] :
        n \in 1..MaxEnrichRows, step \in {3, 10, 30}}

\* a source of the video as the filter returns it; the sources of a turn are
\* made of segments, so the video of a source has a segment
EnrichSource(video, timestamp) ==
    MessageSource(video, Row(video.id, 0, timestamp, "Ola Nordmann"))

InitEnricher ==
    /\ db \in EnrichDatabases
    /\ user = CHOOSE u \in Users : u.organization_id = OrgA /\ u.role = "user"
    /\ conversations = InitialConversations
    /\ conversation = "c1"
    /\ request = [message |-> "Hvem er Ola Nordmann", conversation_id |-> "c1"]
    /\ messages = add_message(InitialMessages, "c1", "user", request.message, <<>>)
    /\ history = <<>>
    /\ ctx_vectors = <<>>
    /\ ctx_mix = <<>>
    /\ header_sources = <<>>
    /\ generated_answer = "Ola Nordmann er arkivar"
    /\ answer = generated_answer
    /\ search_terms = NoTerms
    /\ \E n \in 1..MaxEnrichSources :
          answer_sources \in
              [1..n -> {EnrichSource(v, t) :
                           v \in {w \in db.videos :
                                     \E r \in DOMAIN db.segments :
                                         db.segments[r].video_id = w.id},
                           t \in EnrichTimestamps}]
    /\ sources = answer_sources
    /\ pc = "enrich"
    /\ log = <<"user_message", "search_naive", "search_mix", "search_answer">>
    /\ response = NoResponse
    /\ RagIdle

NextEnricher == AddContext /\ UNCHANGED ragVars

\* the enrichment applied to every database and source list of the sets above
SpecEnricher == InitEnricher /\ [][NextEnricher]_vars

--------------------------------------------------------------------------
(* The excerpts and titles of a turn: a new conversation, on segments whose *)
(* texts are shorter than, as long as and longer than the limit of an      *)
(* excerpt, with messages shorter than, as long as and longer than the     *)
(* limit of a title.                                                       *)

\* "x" * 50
Padding == "xxxxxxxxxxxxxxxxxxxxxxxxxxxxxxxxxxxxxxxxxxxxxxxxxx"

\* a segment text of n characters, for n from 20 to 220
LongText(n) ==
    "Ola Nordmann sa det "
        \o SubSeq(Padding \o Padding \o Padding \o Padding, 1, n - 20)

\* a message of n characters, for n from 21 to 71
LongMessage(n) == "Hvem er Ola Nordmann " \o SubSeq(Padding, 1, n - 21)

MaxExcerptPadding == 1

\* the lengths around the limit: limit - 1 up to limit + MaxExcerptPadding
ExcerptLengths(limit) == (limit - 1)..(limit + MaxExcerptPadding)

ExcerptMessages ==
    {"hva er det"} \cup {LongMessage(n) : n \in ExcerptLengths(TitleLimit)}

\* a video with a segment text as long as the limit, a longer one and a
\* shorter one, in two orders of the table
ExcerptDatabases ==
    {[videos |-> {VideoRow(V1, OrgA, "public", "Intro")},
      segments |-> <<rows[first], rows[(first % 3) + 1], rows[((first + 1) % 3) + 1]>>,
      permissions |-> {}] :
        first \in {1, 2},
        rows \in {<<Row(V1, 0, 0, LongText(TextLimit)),
                    Row(V1, 1, 50, LongText(TextLimit + MaxExcerptPadding)),
                    Row(V1, 2, 100, LongText(TextLimit - 1))>>}}

InitExcerpt ==
    /\ db \in ExcerptDatabases
    /\ user = CHOOSE u \in Users : u.organization_id = OrgA /\ u.role = "user"
    /\ conversations = InitialConversations
    /\ messages = InitialMessages
    /\ pc = "start"
    /\ request = [message |-> "", conversation_id |-> ""]
    /\ conversation = ""
    /\ history = <<>>
    /\ ctx_vectors = <<>>
    /\ ctx_mix = <<>>
    /\ header_sources = <<>>
    /\ generated_answer = ""
    /\ answer = ""
    /\ search_terms = NoTerms
    /\ answer_sources = <<>>
    /\ sources = <<>>
    /\ log = <<>>
    /\ response = NoResponse
    /\ RagIdle

NextExcerpt ==
    \/ \E message \in ExcerptMessages : Receive(message, "") /\ UNCHANGED ragVars
    \/ FetchVectorContext /\ UNCHANGED ragVars
    \/ FetchMixContext /\ UNCHANGED ragVars
    \/ ParseSources /\ UNCHANGED ragVars
    \/ GenerateAnswer /\ UNCHANGED ragVars
    \/ SearchFromAnswer /\ UNCHANGED ragVars
    \/ CombineSources /\ UNCHANGED ragVars
    \/ FilterSources /\ UNCHANGED ragVars
    \/ AddContext /\ UNCHANGED ragVars
    \/ PostProcess /\ UNCHANGED ragVars
    \/ StoreAssistantMessage /\ UNCHANGED ragVars

SpecExcerpt == InitExcerpt /\ [][NextExcerpt]_vars

--------------------------------------------------------------------------
(* The merge policy on its own: a turn that stands at the call of the      *)
(* resolver, with markers of one video whose starts differ but whose       *)
(* segments coincide or begin within the same second.                      *)

KeyHeaders ==
    {Header(V1, "0.0", "0", " hva er det"),
     Header(V1, "0.5", "1", " det sies at Ola Nordmann liker kaffe"),
     Header(V1, "90.0", "2", " hvem sier det"),
     Header(V1, "95.0", "2", " det er kaffe")}

KeyQueries == {"hva er det", "hvem liker kaffe"}

InitKeys ==
    /\ db \in ResolverDatabases
    /\ user = [id |-> "u1", organization_id |-> OrgA, role |-> "user"]
    /\ conversations = InitialConversations
    /\ conversation = "c1"
    /\ \E message \in KeyQueries :
          /\ request = [message |-> message, conversation_id |-> "c1"]
          /\ messages = add_message(InitialMessages, "c1", "user", message, <<>>)
    /\ history = <<>>
    /\ ctx_vectors \in SeqsUpTo(KeyHeaders, MaxVectorHeaders)
    /\ ctx_mix = <<>>
    /\ header_sources = <<>>
    /\ generated_answer = ""
    /\ answer = ""
    /\ search_terms = NoTerms
    /\ answer_sources = <<>>
    /\ sources = <<>>
    /\ pc = "parse"
    /\ log = <<"user_message", "search_naive", "search_mix">>
    /\ response = NoResponse
    /\ RagIdle

NextKeys ==
    \/ ParseSources /\ UNCHANGED ragVars
    \/ GenerateAnswer /\ UNCHANGED ragVars
    \/ SearchFromAnswer /\ UNCHANGED ragVars
    \/ CombineSources /\ UNCHANGED ragVars
    \/ FilterSources /\ UNCHANGED ragVars
    \/ AddContext /\ UNCHANGED ragVars
    \/ PostProcess /\ UNCHANGED ragVars
    \/ StoreAssistantMessage /\ UNCHANGED ragVars

\* the rest of the turn applied to every context, query and database of the sets above
SpecKeys == InitKeys /\ [][NextKeys]_vars

--------------------------------------------------------------------------
(* search_videos *)

\* the texts PostgreSQL reads as a uuid, among those of the model: the
\* hyphens of the five groups are optional and the case is free
IsPostgresUuid(s) ==
    \/ IsUuid(s)
    \/ Len(s) = UuidLen - 4 /\ \A i \in 1..Len(s) : Ch(s, i) \in HexSet

\* the uuid PostgreSQL reads from the text s
PostgresUuid(s) ==
    LET t == Lower(s)
    IN  IF Len(t) = UuidLen THEN t
        ELSE SubSeq(t, 1, 8) \o "-" \o SubSeq(t, 9, 12) \o "-" \o SubSeq(t, 13, 16)
             \o "-" \o SubSeq(t, 17, 20) \o "-" \o SubSeq(t, 21, 32)

\* SearchResult(video, segment, score, url); the score in tenths
SearchResult(video, segment, score) ==
    [video |-> video, segment |-> segment, score |-> score,
     url |-> "/videos/" \o video.id \o "?t=" \o ToString(Floor(segment.start_time))]

RECURSIVE SearchVideosLoop(_, _, _, _, _, _, _, _, _)
\* the loop of search_videos over the matches, from match number idx on.
\* failed: an earlier statement of the session was rejected by the database
\* and left its transaction aborted, so that every later statement raises;
\* aborts: a video_id_str that is no uuid is rejected by the database rather
\* than by the driver.
SearchVideosLoop(d, u, filter, matches, idx, seen, results, failed, aborts) ==
    IF idx > Len(matches) THEN [status |-> 200, results |-> results]
    ELSE
    LET h == matches[idx]
        start == ParseFloat(h.start)
        \* (video_id_str, float(start_str)): a nan is equal to no other nan
        key == <<h.video_id, start.kind,
                 IF start.kind = "nan" THEN idx ELSE start.value>>
        videos == {v \in d.videos :
                       /\ v.id = PostgresUuid(h.video_id)
                       /\ v.organization_id = u.organization_id}
        video == CHOOSE v \in videos : TRUE
        segment == FirstSegment(d, LAMBDA r :
                       /\ start.kind = "finite"
                       /\ r.video_id = PostgresUuid(h.video_id)
                       /\ r.start_time = start.value)
        score == IF 10 - Len(results) > 1 THEN 10 - Len(results) ELSE 1
        next(results2, failed2) ==
            SearchVideosLoop(d, u, filter, matches, idx + 1, seen \cup {key},
                             results2, failed2, aborts)
    IN  IF ~start.ok THEN [status |-> 500, results |-> <<>>]
        ELSE IF key \in seen
        THEN SearchVideosLoop(d, u, filter, matches, idx + 1, seen, results,
                              failed, aborts)
        ELSE IF failed THEN next(results, failed)
        ELSE IF ~IsPostgresUuid(h.video_id) THEN next(results, aborts)
        ELSE IF videos = {} THEN next(results, failed)
        ELSE IF ~can_access_video(u, video, d) THEN next(results, failed)
        ELSE IF filter # {} /\ video.security_level \notin filter
        THEN next(results, failed)
        ELSE IF segment = <<>> THEN next(results, failed)
        ELSE next(Append(results, SearchResult(video, segment[1], score)), failed)

MaxSearchHeaders == 2

\* the markers of the contexts of search_videos: two segments of V1, V2 whose
\* level varies, a video of another organization, a start that is no number
\* and a video_id that is no uuid
SearchHeaders ==
    {Header(V1, "0.0", "0", " Ola Nordmann er arkivar"),
     Header(V1, "2.0", "2", " Kari sier det er kaffe"),
     Header(V2, "0.0", "0", " Ola Nordmann bor i Oslo"),
     Header(V3, "0.0", "0", " Ola Nordmann er sjef"),
     Header(V1, "snart", "1", " Ola Nordmann liker kaffe"),
     Header("not-a-video-id", "0.0", "0", " hva er dette")}

\* security_level_filter: None, or a list of levels
SearchFilters == {{}, {"public"}}

\* re.findall(pattern, lightrag_context): every field is one character or more
SearchMatches(context) ==
    SelectSeq(context, LAMBDA h : h.video_id # "" /\ h.start # "" /\ h.segment_id # "")

\* search_videos from the request to the return of search_async
ReceiveSearch ==
    /\ search_pc = "idle"
    /\ \E filter \in SearchFilters :
          search_request' = [security_level_filter |-> filter]
    /\ IF user.organization_id = NoOrg
       THEN /\ search_pc' = "rejected"
            /\ search_response' = [status |-> 400, results |-> <<>>]
            /\ UNCHANGED lightrag_context
       ELSE \/ /\ \E context \in SeqsUpTo(SearchHeaders, MaxSearchHeaders) :
                     lightrag_context' = context
               /\ search_pc' = "parse"
               /\ UNCHANGED search_response
            \/ /\ search_pc' = "failed"
               /\ search_response' = [status |-> 500, results |-> <<>>]
               /\ UNCHANGED lightrag_context
    /\ UNCHANGED <<turnVars, serviceVars, conversationVars, processingVars, accessVars>>

\* search_videos from the return of search_async to its end
ParseSearchContext ==
    /\ search_pc = "parse"
    /\ \E aborts \in BOOLEAN :
          search_response' =
              SearchVideosLoop(db, user, search_request.security_level_filter,
                               SearchMatches(lightrag_context), 1, {}, <<>>,
                               FALSE, aborts)
    /\ search_pc' = IF search_response'.status = 200 THEN "done" ELSE "failed"
    /\ UNCHANGED <<search_request, lightrag_context>>
    /\ UNCHANGED <<turnVars, serviceVars, conversationVars, processingVars, accessVars>>

InitSearch == TurnInit /\ RagIdle

NextSearch ==
    \/ ReceiveSearch
    \/ ParseSearchContext

\* the requests of search_videos, one at a time
SpecSearch == InitSearch /\ [][NextSearch]_vars

--------------------------------------------------------------------------
(* send_message on conversations of several lengths: conversation c1 holds  *)
(* n earlier messages, of the user and of the assistant in turn, stored     *)
(* between those of conversation c2.                                       *)

MaxHistoryMessages == 12

\* the messages table with n earlier messages of c1, numbered in stored order
HistoryMessages(n) ==
    [i \in 1..n |-> [conversation_id |-> "c1",
                     role |-> IF i % 2 = 1 THEN "user" ELSE "assistant",
                     content |-> "melding " \o ToString(i), sources |-> <<>>]]
    \o <<[conversation_id |-> "c2", role |-> "user", content |-> "hallo",
          sources |-> <<>>]>>

InitHistory ==
    /\ db = CHOOSE d \in Databases : TRUE
    /\ user \in Users
    /\ conversations = InitialConversations
    /\ \E n \in 0..MaxHistoryMessages : messages = HistoryMessages(n)
    /\ pc = "start"
    /\ request = [message |-> "", conversation_id |-> ""]
    /\ conversation = ""
    /\ history = <<>>
    /\ ctx_vectors = <<>>
    /\ ctx_mix = <<>>
    /\ header_sources = <<>>
    /\ generated_answer = ""
    /\ answer = ""
    /\ search_terms = NoTerms
    /\ answer_sources = <<>>
    /\ sources = <<>>
    /\ log = <<>>
    /\ response = NoResponse
    /\ RagIdle

NextHistory ==
    \/ ReceiveMessage /\ UNCHANGED ragVars
    \/ FetchVectorContext /\ UNCHANGED ragVars
    \/ FetchMixContext /\ UNCHANGED ragVars

\* the start of a turn on every conversation of the lengths above
SpecHistory == InitHistory /\ [][NextHistory]_vars

--------------------------------------------------------------------------
(* The operations on conversations, one request after the other: a request *)
(* is a chat turn or one call of get_conversation_messages,                *)
(* update_conversation_title or delete_conversation, by any of the users.  *)

MaxRequests == 1

\* the callers: u1 in its roles and without organization, and u2, the owner of c2
ConversationUsers ==
    Users \cup {[id |-> "u2", organization_id |-> OrgA, role |-> "user"]}

StoredConversationIds == ConversationIds \ {""}

Titles == {"ny tittel"}

\* the turn of the request has ended, or the request made no turn
TurnEnded == pc \in {"start", "rejected", "failed", "persisted"}

\* no turn and no other operation was made for the request
FreshRequest == pc = "start" /\ conversation_response = NoConversationResponse

\* get_conversation_messages(conversation_id)
GetConversationMessages ==
    /\ FreshRequest
    /\ \E conversation_id \in StoredConversationIds :
          conversation_response' =
              [operation |-> "get_conversation_messages",
               conversation_id |-> conversation_id,
               not_found |-> get_conversation(conversations, conversation_id, user) = {},
               body |-> get_messages(conversations, messages, conversation_id, user)]
    /\ UNCHANGED <<turnVars, serviceVars, searchVars, requests, processingVars, accessVars>>

\* ConversationService.update_conversation_title(conversation_id, user, title)
UpdateConversationTitle ==
    /\ FreshRequest
    /\ \E conversation_id \in StoredConversationIds, title \in Titles :
          /\ conversations' =
                 update_conversation_title(conversations, conversation_id, user, title)
          /\ conversation_response' =
                 [operation |-> "update_conversation_title",
                  conversation_id |-> conversation_id,
                  not_found |-> get_conversation(conversations, conversation_id, user) = {},
                  body |-> <<>>]
    /\ UNCHANGED <<db, user, messages, pc, request, conversation, history,
                   ctx_vectors, ctx_mix, header_sources, generated_answer, answer,
                   search_terms, answer_sources, sources, log, response>>
    /\ UNCHANGED <<serviceVars, searchVars, requests, processingVars, accessVars>>

\* delete_conversation(conversation_id)
DeleteConversation ==
    /\ FreshRequest
    /\ \E conversation_id \in StoredConversationIds :
          LET deleted == delete_conversation(conversations, messages, conversation_id, user)
          IN  /\ conversations' = deleted.conversations
              /\ messages' = deleted.messages
              /\ conversation_response' =
                     [operation |-> "delete_conversation",
                      conversation_id |-> conversation_id,
                      not_found |-> get_conversation(conversations, conversation_id, user) = {},
                      body |-> <<>>]
    /\ UNCHANGED <<db, user, pc, request, conversation, history,
                   ctx_vectors, ctx_mix, header_sources, generated_answer, answer,
                   search_terms, answer_sources, sources, log, response>>
    /\ UNCHANGED <<serviceVars, searchVars, requests, processingVars, accessVars>>

\* send_message on a stored conversation, or on a new one while the new
\* identifier is free
SendMessage ==
    /\ conversation_response = NoConversationResponse
    /\ \E conversation_id \in ConversationIds :
          /\ conversation_id = "" =>
                 \A c \in conversations : c.id # NewConversationId
          /\ Receive("hei", conversation_id)

\* the next request arrives, with its current_user
NextRequest ==
    /\ TurnEnded
    /\ requests < MaxRequests
    /\ requests' = requests + 1
    /\ user' \in ConversationUsers
    /\ conversation_response' = NoConversationResponse
    /\ pc' = "start"
    /\ request' = [message |-> "", conversation_id |-> ""]
    /\ conversation' = ""
    /\ history' = <<>>
    /\ ctx_vectors' = <<>>
    /\ ctx_mix' = <<>>
    /\ header_sources' = <<>>
    /\ generated_answer' = ""
    /\ answer' = ""
    /\ search_terms' = NoTerms
    /\ answer_sources' = <<>>
    /\ sources' = <<>>
    /\ log' = <<>>
    /\ response' = NoResponse
    /\ UNCHANGED <<db, conversations, messages, serviceVars, searchVars, processingVars, accessVars>>

InitConversations ==
    /\ db = CHOOSE d \in Databases : TRUE
    /\ user \in ConversationUsers
    /\ conversations = InitialConversations
    /\ messages = InitialMessages
    /\ pc = "start"
    /\ request = [message |-> "", conversation_id |-> ""]
    /\ conversation = ""
    /\ history = <<>>
    /\ ctx_vectors = <<>>
    /\ ctx_mix = <<>>
    /\ header_sources = <<>>
    /\ generated_answer = ""
    /\ answer = ""
    /\ search_terms = NoTerms
    /\ answer_sources = <<>>
    /\ sources = <<>>
    /\ log = <<>>
    /\ response = NoResponse
    /\ RagIdle

NextConversations ==
    \/ SendMessage /\ UNCHANGED ragVars
    \/ FetchVectorContext /\ UNCHANGED ragVars
    \/ FetchMixContext /\ UNCHANGED ragVars
    \/ ParseSources /\ UNCHANGED ragVars
    \/ GenerateAnswer /\ UNCHANGED ragVars
    \/ SearchFromAnswer /\ UNCHANGED ragVars
    \/ CombineSources /\ UNCHANGED ragVars
    \/ FilterSources /\ UNCHANGED ragVars
    \/ AddContext /\ UNCHANGED ragVars
    \/ PostProcess /\ UNCHANGED ragVars
    \/ StoreAssistantMessage /\ UNCHANGED ragVars
    \/ GetConversationMessages
    \/ UpdateConversationTitle
    \/ DeleteConversation
    \/ NextRequest

\* the requests on the conversations of two users
SpecConversations == InitConversations /\ [][NextConversations]_vars

--------------------------------------------------------------------------
(* upload_video, reprocess_video and transcribe_video_task for one video.  *)
(* The requests and the tasks of the queue run in any order; each action   *)
(* is the code between two commits.                                        *)

MaxTasks == 3

\* result["segments"] of Whisper for the file of the video; the second
\* segment has a blank text
Transcript ==
    <<[id |-> 0, start |-> 0, text |-> "Ola Nordmann er arkivar"],
      [id |-> 1, start |-> 5, text |-> "  "],
      [id |-> 2, start |-> 20, text |-> " Kari sier det er kaffe "]>>

\* the VideoSegment rows process_video_segments_async adds for the segments
SegmentRows(video_id, segments) ==
    LET kept == SelectSeq(segments, LAMBDA seg : Strip(seg.text) # "")
    IN  [i \in DOMAIN kept |->
            Row(video_id, kept[i].id, kept[i].start, Strip(kept[i].text))]

\* transcribe_video_task.delay(video_id)
Delay(queue) == Append(queue, [pc |-> "queued"])

\* upload_video
UploadVideo ==
    /\ video_status = "none"
    /\ \E u \in ConversationUsers :
          IF u.organization_id = NoOrg
          THEN /\ video_response' = 400
               /\ UNCHANGED <<db, video_status, tasks>>
          ELSE /\ db' = [db EXCEPT !.videos =
                            {[id |-> V1, organization_id |-> u.organization_id,
                              security_level |-> "internal", title |-> "Intro",
                              uploaded_by |-> u.id]}]
               /\ video_status' = "processing"
               /\ tasks' = Delay(tasks)
               /\ video_response' = 201
    /\ UNCHANGED <<user, conversations, messages, pc, request, conversation, history,
                   ctx_vectors, ctx_mix, header_sources, generated_answer, answer,
                   search_terms, answer_sources, sources, log, response>>
    /\ UNCHANGED <<serviceVars, searchVars, conversationVars, accessVars>>

\* reprocess_video(video_id) for the video V1; its file is on disk once uploaded
ReprocessVideo ==
    /\ Len(tasks) < MaxTasks
    /\ \E u \in ConversationUsers :
          IF db.videos = {}
          THEN /\ video_response' = 404
               /\ UNCHANGED <<db, video_status, tasks>>
          ELSE IF ~can_edit_video(u, CHOOSE v \in db.videos : v.id = V1, db)
          THEN /\ video_response' = 403
               /\ UNCHANGED <<db, video_status, tasks>>
          ELSE /\ db' = [db EXCEPT !.segments =
                            SelectSeq(db.segments, LAMBDA r : r.video_id # V1)]
               /\ video_status' = "processing"
               /\ tasks' = Delay(tasks)
               /\ video_response' = 200
    /\ UNCHANGED <<user, conversations, messages, pc, request, conversation, history,
                   ctx_vectors, ctx_mix, header_sources, generated_answer, answer,
                   search_terms, answer_sources, sources, log, response>>
    /\ UNCHANGED <<serviceVars, searchVars, conversationVars, accessVars>>

\* transcribe_video_task up to its first commit
TaskStarted(t) ==
    /\ tasks[t].pc = "queued"
    /\ IF db.videos = {}
       THEN /\ tasks' = [tasks EXCEPT ![t].pc = "failed"]
            /\ UNCHANGED video_status
       ELSE /\ tasks' = [tasks EXCEPT ![t].pc = "transcribe"]
            /\ video_status' = "processing"
    /\ UNCHANGED <<turnVars, serviceVars, searchVars, conversationVars, accessVars, video_response>>

\* model.transcribe returned, or it raised and the except clause set the
\* status of the video to failed
TaskTranscribed(t) ==
    /\ tasks[t].pc = "transcribe"
    /\ \/ /\ tasks' = [tasks EXCEPT ![t].pc = "save"]
          /\ UNCHANGED video_status
       \/ /\ tasks' = [tasks EXCEPT ![t].pc = "failed"]
          /\ video_status' = "failed"
    /\ UNCHANGED <<turnVars, serviceVars, searchVars, conversationVars, accessVars, video_response>>

\* process_video_segments_async up to its commit
TaskSavedSegments(t) ==
    /\ tasks[t].pc = "save"
    /\ db' = [db EXCEPT !.segments = @ \o SegmentRows(V1, Transcript)]
    /\ tasks' = [tasks EXCEPT ![t].pc = "index"]
    /\ UNCHANGED <<user, conversations, messages, pc, request, conversation, history,
                   ctx_vectors, ctx_mix, header_sources, generated_answer, answer,
                   search_terms, answer_sources, sources, log, response>>
    /\ UNCHANGED <<serviceVars, searchVars, conversationVars, accessVars, video_status,
                   video_response>>

\* the rest of process_video_segments_async, whose failures are logged only,
\* and the last commit of the task
TaskCompleted(t) ==
    /\ tasks[t].pc = "index"
    /\ tasks' = [tasks EXCEPT ![t].pc = "done"]
    /\ video_status' = "completed"
    /\ UNCHANGED <<turnVars, serviceVars, searchVars, conversationVars, accessVars, video_response>>

InitProcessing ==
    /\ db = [videos |-> {}, segments |-> <<>>, permissions |-> {}]
    /\ user = CHOOSE u \in Users : u.organization_id = OrgA /\ u.role = "user"
    /\ conversations = InitialConversations
    /\ messages = InitialMessages
    /\ pc = "start"
    /\ request = [message |-> "", conversation_id |-> ""]
    /\ conversation = ""
    /\ history = <<>>
    /\ ctx_vectors = <<>>
    /\ ctx_mix = <<>>
    /\ header_sources = <<>>
    /\ generated_answer = ""
    /\ answer = ""
    /\ search_terms = NoTerms
    /\ answer_sources = <<>>
    /\ sources = <<>>
    /\ log = <<>>
    /\ response = NoResponse
    /\ RagIdle

NextProcessing ==
    \/ UploadVideo
    \/ ReprocessVideo
    \/ \E t \in DOMAIN tasks : TaskStarted(t)
    \/ \E t \in DOMAIN tasks : TaskTranscribed(t)
    \/ \E t \in DOMAIN tasks : TaskSavedSegments(t)
    \/ \E t \in DOMAIN tasks : TaskCompleted(t)

\* the requests and the tasks for one video
SpecProcessing == InitProcessing /\ [][NextProcessing]_vars

--------------------------------------------------------------------------
(* can_access_video and filter_accessible_videos on their own: the users   *)
(* of every role, in the organization of the video, in another one and in  *)
(* none, and a video of every security level with and without a            *)
(* permission row.                                                         *)

SecurityLevels == {"public", "internal", "confidential", "secret"}

AccessUsers ==
    {[id |-> "u1", organization_id |-> o, role |-> r] :
        o \in {OrgA, OrgB, NoOrg}, r \in {"user", "org_admin", "super_admin"}}

\* V1 of org-a at every level and V3 of org-b, with any of the permission
\* rows of u1 and u2 for them
AccessDatabases ==
    {[videos |-> {VideoRow(V1, OrgA, level, "Intro"),
                  VideoRow(V3, OrgB, "public", "Annet")},
      segments |-> CHOOSE table \in SegmentTables : TRUE,
      permissions |-> rows] :
        level \in SecurityLevels,
        rows \in SUBSET {[video_id |-> V1, user_id |-> "u1"],
                         [video_id |-> V3, user_id |-> "u1"],
                         [video_id |-> V1, user_id |-> "u2"]}}

\* the videos of the database as a list, by their ids
VideoList(d) ==
    LET ids == {v.id : v \in d.videos}
        list == CHOOSE f \in [1..Cardinality(ids) -> ids] :
                    \A i, j \in 1..Cardinality(ids) : i < j => f[i] # f[j] /\ f[i] = V1
    IN  [i \in DOMAIN list |-> CHOOSE v \in d.videos : v.id = list[i]]

\* filter_accessible_videos(user, videos, db)
filter_accessible_videos(u, videos, d) ==
    IF u.role = "super_admin" THEN videos
    ELSE SelectSeq(videos, LAMBDA video : can_access_video(u, video, d))

\* one call of can_access_video(user, video, db)
CanAccessVideo ==
    /\ \E video \in db.videos :
          access_result' = [video |-> video.id,
                            granted |-> can_access_video(user, video, db)]
    /\ UNCHANGED <<turnVars, serviceVars, searchVars, conversationVars,
                   processingVars, accessible>>

\* one call of filter_accessible_videos(user, videos, db) on all videos
FilterAccessibleVideos ==
    /\ accessible' = filter_accessible_videos(user, VideoList(db), db)
    /\ UNCHANGED <<turnVars, serviceVars, searchVars, conversationVars,
                   processingVars, access_result>>

InitAccess ==
    /\ db \in AccessDatabases
    /\ user \in AccessUsers
    /\ conversations = InitialConversations
    /\ messages = InitialMessages
    /\ pc = "start"
    /\ request = [message |-> "", conversation_id |-> ""]
    /\ conversation = ""
    /\ history = <<>>
    /\ ctx_vectors = <<>>
    /\ ctx_mix = <<>>
    /\ header_sources = <<>>
    /\ generated_answer = ""
    /\ answer = ""
    /\ search_terms = NoTerms
    /\ answer_sources = <<>>
    /\ sources = <<>>
    /\ log = <<>>
    /\ response = NoResponse
    /\ RagIdle

NextAccess ==
    \/ CanAccessVideo
    \/ FilterAccessibleVideos

\* the access test applied to every user and database of the sets above
SpecAccess == InitAccess /\ [][NextAccess]_vars

--------------------------------------------------------------------------
(* Properties of a chat turn *)

\* the messages the turn has added to the table
AddedMessages == SubSeq(messages, Len(InitialMessages) + 1, Len(messages))

\* the row of the user's message of this turn
UserMessage ==
    [conversation_id |-> conversation, role |-> "user", content |-> request.message,
     sources |-> <<>>]

\* every source of srcs names a video the user may access
AccessChecked(srcs) ==
    \A i \in DOMAIN srcs :
        \E v \in db.videos : v.id = srcs[i].video_id /\ can_access_video(user, v, db)

\* every source of srcs names a video of the user's organization
OwnSources(srcs) ==
    \A i \in DOMAIN srcs :
        \E v \in db.videos : /\ v.id = srcs[i].video_id
                             /\ v.organization_id = user.organization_id

\* the videos, segments and permissions of d that belong to the user's organization
OwnOrganization(d) ==
    LET videos == {v \in d.videos : v.organization_id = user.organization_id}
    IN  [videos |-> videos,
         segments |-> SelectSeq(d.segments,
                                LAMBDA r : \E v \in videos : v.id = r.video_id),
         permissions |-> {p \in d.permissions : \E v \in videos : v.id = p.video_id}]

\* the user's organization of d with another content of the other organizations
OtherOrganizationsChanged(d) ==
    LET own == OwnOrganization(d)
    IN  [videos |-> own.videos \cup {VideoRow(V3, OrgB, "internal", "Intro")},
         segments |-> <<Row(V3, 0, 0, "Ola Nordmann er arkivar, hei det er kaffe")>>
                      \o own.segments
                      \o <<Row(V3, 1, 5, "Kari og Ola Nordmann")>>,
         permissions |-> own.permissions \cup {[video_id |-> V3, user_id |-> user.id]}]

\* databases that differ from d only in what other organizations hold
TenantVariants(d) == {OwnOrganization(d), OtherOrganizationsChanged(d)}

\* the sources the turn returns when it runs on d from the header-based and
\* the answer-based sources of this turn
TurnSources(d) ==
    LET query == request.message
        candidates == CandidateSources(d, user, search_terms, header_sources,
                                       answer_sources, generated_answer, query)
        filtered == FilterRelevantSources(candidates, generated_answer, query)
    IN  IF filtered # <<>> THEN AddContextToSources(d, filtered) ELSE filtered

\* a is b with some of its elements left out
IsSubsequence(a, b) ==
    \E f \in [DOMAIN a -> DOMAIN b] :
        /\ \A i, j \in DOMAIN a : i < j => f[i] < f[j]
        /\ \A i \in DOMAIN a : b[f[i]] = a[i]

AfterCombine == {"filter", "enrich", "correct", "store", "persisted"}

AfterFilter == {"enrich", "correct", "store", "persisted"}

\* C1: every source the turn holds, returns or persists on the assistant
\* message names a video for which can_access_video(user, video) is true;
\* merging, filtering and enrichment add no source of another video.
C1_SourcesAccessChecked ==
    /\ AccessChecked(header_sources)
    /\ AccessChecked(answer_sources)
    /\ AccessChecked(sources)
    /\ AccessChecked(response.sources)
    /\ \A i \in DOMAIN AddedMessages : AccessChecked(AddedMessages[i].sources)

\* a turn that returned sources although the contexts named, and the search
\* terms matched, a video of the user's organization the user may not access
C1_Witness ==
    /\ pc = "persisted"
    /\ response.sources # <<>>
    /\ \E v \in db.videos :
          /\ v.organization_id = user.organization_id
          /\ ~can_access_video(user, v, db)
          /\ \E i \in DOMAIN ctx_vectors : ctx_vectors[i].video_id = v.id
          /\ \E i \in DOMAIN db.segments :
                /\ db.segments[i].video_id = v.id
                /\ SearchScore(search_terms, db.segments[i]) > 0

\* C2: the sources of a turn come from the user's organization only, and they
\* are the same on every database that differs only in the videos, segments
\* and permissions of other organizations: so are the header-based sources
\* when they are resolved, the answer-based sources when they are found, and
\* the filtered, enriched list that is stored and returned.
C2_TenantNoninterference ==
    /\ OwnSources(header_sources)
    /\ OwnSources(answer_sources)
    /\ OwnSources(sources)
    /\ OwnSources(response.sources)
    /\ \A d \in TenantVariants(db) :
          /\ pc = "answer"
                => header_sources = ParseSourcesFromLightrag(d, user,
                                        CombinedContext(ctx_vectors, ctx_mix),
                                        request.message)
          /\ pc = "combine"
                => answer_sources = SearchSourcesFromAnswer(d, user, search_terms)
          /\ pc = "store" => sources = TurnSources(d)
    /\ pc = "persisted" => response.sources = sources

\* a super admin's turn returned sources while a segment of another
\* organization matched the search terms and a context named its video
C2_Witness ==
    /\ pc = "persisted"
    /\ user.role = "super_admin"
    /\ response.sources # <<>>
    /\ \E i \in DOMAIN db.segments :
          /\ VideoOf(db, db.segments[i]).organization_id # user.organization_id
          /\ SearchScore(search_terms, db.segments[i]) > 0
          /\ \E j \in DOMAIN ctx_mix : ctx_mix[j].video_id = db.segments[i].video_id

\* C3: the user's message is stored before any call of the retrieval backend;
\* a failed turn stores no assistant message and reports one error; a
\* persisted turn stores exactly one assistant message, which carries the
\* answer and the sources of the response.
C3_AtomicTurn ==
    /\ pc \in {"start", "rejected"} => AddedMessages = <<>>
    /\ pc \notin {"start", "rejected"}
          => Len(AddedMessages) >= 1 /\ AddedMessages[1] = UserMessage
    /\ log # <<>> => log[1] = "user_message"
    /\ pc # "persisted" => Len(AddedMessages) <= 1
    /\ pc = "failed"
          => /\ AddedMessages = <<UserMessage>>
             /\ response = HttpError(500)
             /\ Count(log, LAMBDA e : e = "error") = 1
             /\ log[Len(log)] = "error"
    /\ pc = "persisted"
          => /\ AddedMessages =
                   <<UserMessage,
                     [conversation_id |-> conversation, role |-> "assistant",
                      content |-> response.answer, sources |-> response.sources]>>
             /\ response = [status |-> 200, answer |-> answer, sources |-> sources]
             /\ Count(log, LAMBDA e : e = "error") = 0

\* a turn that failed after the header resolver had produced sources
C3_Witness ==
    /\ pc = "failed"
    /\ header_sources # <<>>
    /\ Len(log) >= 4

\* C4: when the call of the correction model raises, the answer is the
\* generated one, unchanged, the turn does not fail, and it is persisted
\* with that answer and the filtered, enriched sources.
C4_CorrectionFailureKeepsAnswer ==
    (\E i \in DOMAIN log : log[i] = "correction_raised")
        => /\ pc \in {"store", "persisted"}
           /\ answer = generated_answer
           /\ sources # <<>> /\ sources = TurnSources(db)
           /\ pc = "store" => ENABLED StoreAssistantMessage
           /\ pc = "persisted"
                 => /\ response = [status |-> 200, answer |-> generated_answer,
                                   sources |-> sources]
                    /\ AddedMessages[Len(AddedMessages)] =
                          [conversation_id |-> conversation, role |-> "assistant",
                           content |-> generated_answer, sources |-> sources]

\* a persisted turn whose correction call raised
C4_Witness ==
    /\ pc = "persisted"
    /\ \E i \in DOMAIN log : log[i] = "correction_raised"
    /\ response.answer = generated_answer
    /\ response.sources # <<>>

\* C5: concurrent get_rag_instance calls for one organization construct one
\* instance for it, and every caller receives that instance.
C5_SingleInstance ==
    /\ \A o \in Organizations :
          Cardinality({i \in DOMAIN constructed : constructed[i] = o}) <= 1
    /\ \A c1, c2 \in Callers :
          (/\ caller[c1].pc = "done"
           /\ caller[c2].pc = "done"
           /\ caller[c1].organization_id = caller[c2].organization_id)
              => caller[c1].result = caller[c2].result

\* C6: when the answer-based search found a source, the list handed to the
\* filter is the answer-based sources in their order, then header-based
\* sources in their order, and no key of a header-based source is missing.
C6_MergeOrder ==
    (pc = "filter" /\ Len(answer_sources) >= 1)
        => LET n == Len(answer_sources)
           IN  /\ Len(sources) >= n
               /\ SubSeq(sources, 1, n) = answer_sources
               /\ IsSubsequence(SubSeq(sources, n + 1, Len(sources)), header_sources)
               /\ \A i \in DOMAIN header_sources :
                     \E j \in DOMAIN sources :
                         SourceKey(sources[j]) = SourceKey(header_sources[i])

\* a merge of two or more answer-based sources with a header-based source
\* that was not among them
C6_Witness ==
    /\ pc = "filter"
    /\ Len(answer_sources) >= 2
    /\ header_sources # <<>>
    /\ Len(sources) > Len(answer_sources)

\* C7: the merged list holds no two sources with the same key
\* (video id, floor(timestamp)), and where an answer-based and a header-based
\* source share a key the answer-based one is kept.
C7_MergeDeduplicates ==
    (pc = "filter" /\ Len(answer_sources) >= 1)
        => /\ \A i, j \in DOMAIN sources :
                 SourceKey(sources[i]) = SourceKey(sources[j]) => i = j
           /\ \A i \in DOMAIN sources, j \in DOMAIN answer_sources :
                 SourceKey(sources[i]) = SourceKey(answer_sources[j])
                     => sources[i] = answer_sources[j]

\* a merge in which a header-based source and a different answer-based source
\* have the same key
C7_Witness ==
    /\ pc = "filter"
    /\ \E i \in DOMAIN header_sources, j \in DOMAIN answer_sources :
          /\ SourceKey(header_sources[i]) = SourceKey(answer_sources[j])
          /\ header_sources[i] # answer_sources[j]

\* C8: when fewer than half of the header-based sources are relevant to the
\* answer and the answer-based search yields a source, the list handed to the
\* filter is the answer-based sources only.
C8_SubstitutesAnswerSources ==
    (/\ pc = "filter"
     /\ header_sources # <<>>
     /\ 2 * RelevantSourceCount(header_sources, answer) < Len(header_sources)
     /\ Len(SearchSourcesFromAnswer(db, user, search_terms)) >= 1)
        => sources = SearchSourcesFromAnswer(db, user, search_terms)

\* C9: the fallback search is made exactly when neither the header resolver
\* nor the answer-based search returned a source; when, in addition, the
\* answer and the query hold no entity and no keyword, the final list is empty.
C9_FallbackOnlyWhenBothEmpty ==
    /\ pc \notin AfterCombine => \A i \in DOMAIN log : log[i] # "fallback_search"
    /\ pc \in AfterCombine
          => ((\E i \in DOMAIN log : log[i] = "fallback_search")
                 <=> (header_sources = <<>> /\ answer_sources = <<>>))
    /\ (/\ pc \in AfterFilter
        /\ \E i \in DOMAIN log : log[i] = "fallback_search"
        /\ FilterEntities(generated_answer, request.message) = {}
        /\ FilterKeywords(generated_answer, request.message) = {})
          => sources = <<>>

\* a persisted turn with no entity and no keyword whose fallback search had
\* found a source, and which returned none
C9_Witness ==
    /\ pc = "persisted"
    /\ \E i \in DOMAIN log : log[i] = "fallback_search"
    /\ FilterEntities(generated_answer, request.message) = {}
    /\ FilterKeywords(generated_answer, request.message) = {}
    /\ SearchVideosByQuery(db, user, request.message) # <<>>
    /\ response.sources = <<>>

\* C10: when the answer contains a greeting and the query has at most two
\* words or is a generic query, the filter returns the empty list.
C10_GreetingSuppression ==
    (/\ pc \in AfterFilter
     /\ is_greeting(generated_answer)
     /\ is_short_query(request.message) \/ is_generic_query(request.message))
        => sources = <<>>

\* a greeting turn that returned no source although a candidate handed to the
\* filter scores at least 2
C10_Witness ==
    /\ pc = "persisted"
    /\ is_greeting(generated_answer)
    /\ is_short_query(request.message)
    /\ LET candidates == CandidateSources(db, user, search_terms, header_sources,
                                          answer_sources, generated_answer,
                                          request.message)
       IN  \E i \in DOMAIN candidates :
               RelevanceScore(candidates[i], generated_answer, request.message) >= 2
    /\ response.sources = <<>>

--------------------------------------------------------------------------
(* Properties of the relevance filter *)

\* the filter takes one of its early returns
ShortCircuited(ans, query) ==
    \/ (is_greeting(ans) \/ is_generic(ans))
       /\ (is_short_query(query) \/ is_generic_query(query))
    \/ Len(Split(ans)) <= 5 /\ is_generic(ans)
    \/ FilterEntities(ans, query) = {} /\ FilterKeywords(ans, query) = {}

\* the entities of the answer and the query that occur in the text of src
EntitiesIn(src, ans, query) ==
    {e \in FilterEntities(ans, query) : Contains(Lower(src.text), Lower(e))}

\* the keywords of the answer and the query that occur in the text of src
KeywordsIn(src, ans, query) ==
    {k \in FilterKeywords(ans, query) : Contains(Lower(src.text), k)}

\* the positions of the query tokens longer than 3 characters that occur in src
QueryTokensIn(src, query) ==
    {i \in DOMAIN Split(query) :
        Len(Split(query)[i]) > 3 /\ Contains(Lower(src.text), Lower(Split(query)[i]))}

\* the score of the claim
StatedScore(src, ans, query) ==
    3 * Cardinality(EntitiesIn(src, ans, query))
    + (IF Cardinality(KeywordsIn(src, ans, query)) >= 2
       THEN Cardinality(KeywordsIn(src, ans, query)) ELSE 0)
    + (IF Len(Split(query)) > 3 /\ Cardinality(QueryTokensIn(src, query)) >= 2
       THEN 2 ELSE 0)

\* C11: when the filter takes no early return, it keeps, in their order,
\* exactly the sources whose score is at least 2, the score being 3 per
\* entity in the text, plus the keyword matches when there are two or more,
\* plus 2 when the query has more than 3 words and two or more of its tokens
\* longer than 3 characters are in the text; so a source with an entity is
\* kept and a source with one keyword and nothing else is dropped.
C11_ScoreRule ==
    (pc # "filter" /\ ~ShortCircuited(generated_answer, request.message))
        => LET ans == generated_answer
               query == request.message
           IN  /\ sources = SelectSeq(answer_sources,
                                LAMBDA x : StatedScore(x, ans, query) >= 2)
               /\ \A i \in DOMAIN answer_sources :
                     LET x == answer_sources[i]
                         kept == \E j \in DOMAIN sources : sources[j] = x
                     IN  /\ EntitiesIn(x, ans, query) # {} => kept
                         /\ (/\ EntitiesIn(x, ans, query) = {}
                             /\ Cardinality(KeywordsIn(x, ans, query)) = 1
                             /\ QueryTokensIn(x, query) = {}) => ~kept

\* the filter ran without an early return on two candidates: it kept one that
\* holds nothing but two query tokens and dropped one with a single keyword
C11_Witness ==
    /\ pc # "filter"
    /\ ~ShortCircuited(generated_answer, request.message)
    /\ \E i, j \in DOMAIN answer_sources :
          /\ EntitiesIn(answer_sources[i], generated_answer, request.message) = {}
          /\ KeywordsIn(answer_sources[i], generated_answer, request.message) = {}
          /\ \E k \in DOMAIN sources : sources[k] = answer_sources[i]
          /\ EntitiesIn(answer_sources[j], generated_answer, request.message) = {}
          /\ Cardinality(KeywordsIn(answer_sources[j], generated_answer,
                                    request.message)) = 1
          /\ \A k \in DOMAIN sources : sources[k] # answer_sources[j]

--------------------------------------------------------------------------
(* Properties of the header parser and resolver *)

\* the context the resolver is given
Context == CombinedContext(ctx_vectors, ctx_mix)

HexDigits == CharsOf("0123456789abcdefABCDEF")

\* the n characters of s from position from on are hexadecimal digits
HexGroup(s, from, n) == \A i \in from..(from + n - 1) : Ch(s, i) \in HexDigits

\* s is five groups of 8, 4, 4, 4 and 12 hexadecimal digits joined by hyphens
StrictVideoId(s) ==
    /\ Len(s) = 36
    /\ HexGroup(s, 1, 8) /\ Ch(s, 9) = "-"
    /\ HexGroup(s, 10, 4) /\ Ch(s, 14) = "-"
    /\ HexGroup(s, 15, 4) /\ Ch(s, 19) = "-"
    /\ HexGroup(s, 20, 4) /\ Ch(s, 24) = "-"
    /\ HexGroup(s, 25, 12)

\* C12: the parser's tuples are the markers whose video_id is five groups of
\* 8, 4, 4, 4 and 12 hexadecimal digits in either case, in their order; a
\* marker with another video_id gives no tuple and no source, and the
\* sources are those of the remaining markers.
C12_StrictIdentifier ==
    LET strict == SelectSeq(Context, LAMBDA h : StrictVideoId(h.video_id))
    IN  /\ HeaderMatches(Context) = strict
        /\ pc = "answer"
              => /\ \A i \in DOMAIN header_sources :
                       \E j \in DOMAIN strict :
                           Lower(strict[j].video_id) = header_sources[i].video_id
                 /\ header_sources =
                       ParseLoop(db, user, strict, HeaderTextPairs(Context),
                                 HeaderQueryKeywords(request.message), 1, {}, <<>>)

\* the resolver ran on a context with a marker whose video_id has no hyphens
\* and with a marker in capitals, and it resolved the one in capitals
C12_Witness ==
    /\ pc = "answer"
    /\ \E i, j \in DOMAIN Context :
          /\ i < j
          /\ Context[i].video_id = V1Bare
          /\ Context[j].video_id = V1Upper
    /\ \E i \in DOMAIN header_sources :
          header_sources[i].video_id = V1 /\ header_sources[i].timestamp = 20

\* b is a later occurrence of the header a: the same video_id and the same
\* finite start
SameHeader(a, b) ==
    LET x == ParseFloat(a.start)
        y == ParseFloat(b.start)
    IN  /\ StrictVideoId(a.video_id)
        /\ a.video_id = b.video_id
        /\ x.ok /\ y.ok
        /\ x.kind = "finite" /\ y.kind = "finite"
        /\ x.value = y.value

\* the context with the start of every repeated header made unreadable, so
\* that only the first occurrence of a header can be resolved
FirstOccurrences(context) ==
    [i \in DOMAIN context |->
        IF \E j \in 1..(i - 1) : SameHeader(context[j], context[i])
        THEN [context[i] EXCEPT !.start = "-"]
        ELSE context[i]]

\* C13: a header that occurs several times is resolved once, from its first
\* occurrence: the later occurrences add nothing and change nothing; the
\* vector-mode context comes first, so its occurrence is the one resolved.
C13_FirstOccurrenceWins ==
    pc = "answer"
        => /\ header_sources = ParseSourcesFromLightrag(db, user,
                                   FirstOccurrences(Context), request.message)
           /\ (\A i \in DOMAIN Context : i > 1 => SameHeader(Context[1], Context[i]))
                 => Len(header_sources) <= 1

\* a header of the vector-mode context occurs again in the other context
\* with another segment_id: the source is the segment of the first one
C13_Witness ==
    /\ pc = "answer"
    /\ \E i \in DOMAIN ctx_vectors, j \in DOMAIN ctx_mix :
          /\ SameHeader(ctx_vectors[i], ctx_mix[j])
          /\ ctx_vectors[i].segment_id = "2"
          /\ ctx_mix[j].segment_id = "1"
    /\ \E i \in DOMAIN header_sources : header_sources[i].timestamp = 20
    /\ \A i \in DOMAIN header_sources : header_sources[i].timestamp # 5

\* the start of the header h reads as a finite number
FiniteStart(h) ==
    LET t == Strip(h.start)
    IN  \/ IsDigits(t)
        \/ \E k \in 1..Len(t) :
              /\ Ch(t, k) = "."
              /\ IsDigits(SubSeq(t, 1, k - 1))
              /\ IsDigits(SubSeq(t, k + 1, Len(t)))

\* the context with the start of every header that is no finite number
\* replaced by a text that is no number at all
FiniteStartsOnly(context) ==
    [i \in DOMAIN context |->
        IF FiniteStart(context[i]) THEN context[i]
        ELSE [context[i] EXCEPT !.start = "-"]]

\* C14: a header whose start is no finite number, be it a text that is no
\* number or a spelling of infinity or of not-a-number, gives no source and
\* leaves the sources of the other headers as they are.
C14_SkipsUnreadableStart ==
    pc = "answer"
        => /\ (\A i \in DOMAIN Context : ~FiniteStart(Context[i]))
                 => header_sources = <<>>
           /\ header_sources = ParseSourcesFromLightrag(db, user,
                                   FiniteStartsOnly(Context), request.message)

\* some keyword of the query occurs in text
KeywordIn(text) ==
    \E k \in DOMAIN HeaderQueryKeywords(request.message) :
        Contains(Lower(text), HeaderQueryKeywords(request.message)[k])

\* C15: for a single header with a well-formed video_id and a finite start,
\* the source is a segment of the video whose start_time is within 0.1 s of
\* the start if there is one, else the segment whose ordinal is the integer
\* segment_id if there is one, else any segment of the video; there is no
\* source when the video is not one of the user's organization, when access
\* is denied or when the video has no segment.
C15_RuleOrder ==
    (pc = "answer" /\ Len(Context) = 1 /\ StrictVideoId(Context[1].video_id)
        /\ FiniteStart(Context[1]))
        => LET h == Context[1]
               vid == Lower(h.video_id)
               t == ParseFloat(h.start).value
               rows == {i \in DOMAIN db.segments : db.segments[i].video_id = vid}
               near == {i \in rows :
                           /\ db.segments[i].start_time >= t - 1
                           /\ db.segments[i].start_time <= t + 1}
               numbered == {i \in rows :
                               /\ IsDigits(Strip(h.segment_id))
                               /\ db.segments[i].segment_id
                                      = DigitsValue(Strip(h.segment_id), 0)}
               candidates == IF near # {} THEN near
                             ELSE IF numbered # {} THEN numbered
                             ELSE rows
               allowed == \E v \in db.videos :
                              /\ v.id = vid
                              /\ v.organization_id = user.organization_id
                              /\ can_access_video(user, v, db)
           IN  /\ Len(header_sources) <= 1
               /\ \A k \in DOMAIN header_sources :
                     \E i \in candidates :
                         /\ header_sources[k].video_id = vid
                         /\ header_sources[k].timestamp = db.segments[i].start_time
               /\ (~allowed \/ rows = {}) => header_sources = <<>>
               /\ (allowed /\ candidates # {}
                      /\ \A i \in candidates : KeywordIn(db.segments[i].text))
                     => Len(header_sources) = 1

\* a header with start 0.5 and segment_id 2 was resolved to the segment that
\* starts at 0.5 s, not to the segment with ordinal 2
C15_Witness ==
    /\ pc = "answer"
    /\ Len(Context) = 1
    /\ Context[1].video_id = V1
    /\ Context[1].start = "0.5"
    /\ Context[1].segment_id = "2"
    /\ Len(header_sources) = 1
    /\ header_sources[1].timestamp = 5

\* the header h of the context names the video of the source s, and a keyword
\* of the query occurs in the text that followed h or in the text of the
\* segment s was made of
RelevantFor(h, s) ==
    /\ Lower(h.video_id) = s.video_id
    /\ \/ KeywordIn(Take(h.text, HeaderTextLimit))
       \/ \E r \in DOMAIN db.segments :
             /\ db.segments[r].video_id = s.video_id
             /\ db.segments[r].start_time = s.timestamp
             /\ KeywordIn(db.segments[r].text)

\* C16: every source the resolver emits comes from a header for which a
\* keyword of the query (a token of more than 2 characters, in lower case)
\* occurs in the text of the matched segment or in the text that followed the
\* header, for every query.
C16_EmittedSourcesAreRelevant ==
    pc = "answer"
        => \A k \in DOMAIN header_sources :
              \E i \in DOMAIN Context : RelevantFor(Context[i], header_sources[k])

\* C17: the local context text the relevance check uses for the k-th header
\* the parser retained is the text that followed that header in the context,
\* up to the next header or 500 characters, also when the context holds
\* markers the identifier grammar rejects.
C17_LocalContextOfSameHeader ==
    LET matches == HeaderMatches(Context)
    IN  \A k \in DOMAIN matches :
            LocalContextText(HeaderTextPairs(Context), k)
                = Lower(Take(matches[k].text, HeaderTextLimit))

--------------------------------------------------------------------------
(* Properties of the order of a turn's steps *)

\* the steps of send_message that may follow one another
StepOrder ==
    {<<"start", "vectors">>, <<"vectors", "mix">>, <<"mix", "parse">>,
     <<"parse", "answer">>, <<"answer", "search">>, <<"search", "combine">>,
     <<"combine", "filter">>, <<"filter", "enrich">>, <<"filter", "store">>,
     <<"enrich", "correct">>, <<"correct", "store">>, <<"store", "persisted">>}

\* the ends of a turn that stores no assistant message
Aborted == {"rejected", "failed"}

\* what has been done when the turn is at a step
StepsCompleted ==
    /\ pc \in {"parse", "answer"}
          => log = <<"user_message", "search_naive", "search_mix">>
    /\ pc \in AfterCombine \cup {"search", "combine"}
          => SubSeq(log, 1, 4)
                = <<"user_message", "search_naive", "search_mix", "search_answer">>
    /\ pc = "filter"
          => /\ header_sources = ParseSourcesFromLightrag(db, user, Context,
                                                          request.message)
             /\ search_terms \in SearchTerms(generated_answer, request.message)
             /\ answer_sources = SearchSourcesFromAnswer(db, user, search_terms)
             /\ sources = CandidateSources(db, user, search_terms, header_sources,
                                           answer_sources, generated_answer,
                                           request.message)
             /\ \A i \in DOMAIN log : log[i] \notin {"correction", "correction_raised"}
    /\ pc = "store"
          => /\ sources = TurnSources(db)
             /\ (\E i \in DOMAIN log : log[i] \in {"correction", "correction_raised"})
                    <=> sources # <<>>
    /\ (\E i \in DOMAIN AddedMessages : AddedMessages[i].role = "assistant")
          => /\ pc = "persisted"
             /\ log[Len(log)] = "assistant_message"

\* C18: the steps of a turn follow one another in the order retrieval of the
\* vector context, retrieval of the mix context, header-based sourcing, answer
\* generation, answer-based sourcing, merge, filter, enrichment, correction,
\* persistence; the filter is applied to the merge of completed header-based
\* and answer-based sourcing, and the assistant message is written only after
\* the filter.
C18_StepOrder ==
    /\ []StepsCompleted
    /\ [][pc' # pc => (<<pc, pc'>> \in StepOrder \/ pc' \in Aborted)]_vars

\* a persisted turn that made every step, with sources from both sourcings
C18_Witness ==
    /\ pc = "persisted"
    /\ log = <<"user_message", "search_naive", "search_mix", "search_answer",
               "correction", "assistant_message">>
    /\ header_sources # <<>>
    /\ answer_sources # <<>>
    /\ response.sources # <<>>

\* the calls of the correction model the turn has made
CorrectionCalls ==
    {i \in DOMAIN log : log[i] \in {"correction", "correction_raised"}}

\* the list the filter returns in this turn
FilteredSources ==
    FilterRelevantSources(
        CandidateSources(db, user, search_terms, header_sources, answer_sources,
                         generated_answer, request.message),
        generated_answer, request.message)

\* C19: a turn calls the correction model at most once, and a persisted turn
\* has called it exactly when the filter returned a source; when the filter
\* returned none, the assistant message and the response carry the generated
\* answer as it was and the empty source list.
C19_CorrectionOnlyWithSources ==
    /\ Cardinality(CorrectionCalls) <= 1
    /\ pc \notin {"store", "persisted"} => CorrectionCalls = {}
    /\ pc = "persisted"
          => /\ CorrectionCalls # {} <=> FilteredSources # <<>>
             /\ FilteredSources = <<>>
                   => /\ response = [status |-> 200, answer |-> generated_answer,
                                     sources |-> <<>>]
                      /\ AddedMessages[Len(AddedMessages)] =
                            [conversation_id |-> conversation, role |-> "assistant",
                             content |-> generated_answer, sources |-> <<>>]

\* a persisted turn whose filter dropped every candidate: no correction call,
\* the generated answer and no source
C19_Witness ==
    /\ pc = "persisted"
    /\ CandidateSources(db, user, search_terms, header_sources, answer_sources,
                        generated_answer, request.message) # <<>>
    /\ FilteredSources = <<>>
    /\ CorrectionCalls = {}
    /\ response.answer = generated_answer
    /\ response.sources = <<>>

--------------------------------------------------------------------------
(* Properties of the shutdown *)

\* the calls of finalize_storages made on the instance rag
FinalizeCallsOn(rag) == {i \in DOMAIN finalize_calls : finalize_calls[i].rag = rag}

\* C20: when a call of shutdown_lightrag_service has returned,
\* finalize_storages has been called on every instance the registry held,
\* whether or not an earlier one raised, the registry is empty and the global
\* reference is cleared; a second call makes no further finalize_storages call.
C20_ShutdownFinalizesAll ==
    (shutdown.calls >= 1 /\ shutdown.pc = "idle")
        => /\ \A o \in DOMAIN shutdown.registry :
                 Cardinality(FinalizeCallsOn(shutdown.registry[o])) = 1
           /\ Len(finalize_calls) = Cardinality(DOMAIN shutdown.registry)
           /\ instances = <<>>
           /\ lightrag_service = "None"
           /\ service_initialized = FALSE

\* two shutdown calls have returned; the first found two instances, and the
\* finalize_storages call on the first of them raised
C20_Witness ==
    /\ shutdown.calls = 2
    /\ shutdown.pc = "idle"
    /\ Cardinality(DOMAIN shutdown.registry) = 2
    /\ Len(finalize_calls) = 2
    /\ finalize_calls[1].raised
    /\ ~finalize_calls[2].raised

--------------------------------------------------------------------------
(* Properties of the answer-based search *)

\* the row of video_segments the source s was made of
BackingRow(s) ==
    db.segments[CHOOSE r \in DOMAIN db.segments :
                    /\ db.segments[r].video_id = s.video_id
                    /\ db.segments[r].start_time = s.timestamp]

\* 3 for every entity and 1 for every keyword of the search that the text of
\* the backing row of s holds
SourceScore(s) ==
    LET text == Lower(BackingRow(s).text)
    IN  3 * Cardinality({e \in search_terms.entities : Contains(text, Lower(e))})
        + Cardinality({k \in search_terms.keywords : Contains(text, k)})

\* C21: the answer-based search returns at most 3 * limit sources, no two
\* with the same video and whole second, in non-increasing order of score
\* with sources of equal score in the order of their start times; it returns
\* the empty list when neither answer nor query holds an entity or a keyword.
C21_SearcherResult ==
    pc = "combine"
        => /\ Len(answer_sources) <= 3 * SearchLimit
           /\ \A i, j \in DOMAIN answer_sources :
                 i < j
                    => /\ SourceKey(answer_sources[i]) # SourceKey(answer_sources[j])
                       /\ SourceScore(answer_sources[i]) >= SourceScore(answer_sources[j])
                       /\ SourceScore(answer_sources[i]) = SourceScore(answer_sources[j])
                             => answer_sources[i].timestamp <= answer_sources[j].timestamp
           /\ (SearchEntities(generated_answer, request.message) = {}
                  /\ SearchKeywords(generated_answer, request.message) = {})
                 => answer_sources = <<>>

\* a search that stopped at 3 * limit sources of more than one score, on a
\* table with rows of the same video and whole second
C21_Witness ==
    /\ pc = "combine"
    /\ Len(answer_sources) = 3 * SearchLimit
    /\ SourceScore(answer_sources[1]) > SourceScore(answer_sources[3 * SearchLimit])
    /\ \E i, j \in DOMAIN db.segments :
          /\ i < j
          /\ db.segments[i].video_id = db.segments[j].video_id
          /\ Floor(db.segments[i].start_time) = Floor(db.segments[j].start_time)
          /\ SearchScore(search_terms, db.segments[i]) > 0
          /\ SearchScore(search_terms, db.segments[j]) > 0

--------------------------------------------------------------------------
(* Properties of the enrichment *)

\* the rows of the video vid, by their place in the table
VideoRows(vid) == {r \in DOMAIN db.segments : db.segments[r].video_id = vid}

StartOf(r) == db.segments[r].start_time

\* the rows of S, which start at different times, in the order of their starts
Ascending(S) ==
    CHOOSE f \in [1..Cardinality(S) -> S] :
        \A i, j \in 1..Cardinality(S) : i < j => StartOf(f[i]) < StartOf(f[j])

\* the rows the enricher may take for the source s: those of its video that
\* start within 0.5 s of it or, when there is none, those nearest to it
BackingRows(s) ==
    LET rows == VideoRows(s.video_id)
        near == {r \in rows : Abs(StartOf(r) - s.timestamp) <= 5}
    IN  IF near # {} THEN near
        ELSE {r \in rows : \A q \in rows :
                 Abs(StartOf(r) - s.timestamp) <= Abs(StartOf(q) - s.timestamp)}

\* the text for the main row: an ellipsis and the two rows just before it, if
\* any, the marked main row, the two rows just after it and an ellipsis, if any
EnrichedText(main) ==
    LET rows == VideoRows(db.segments[main].video_id)
        before == {r \in rows :
                      /\ StartOf(r) < StartOf(main)
                      /\ Cardinality({q \in rows : /\ StartOf(r) < StartOf(q)
                                                   /\ StartOf(q) < StartOf(main)}) < 2}
        after == {r \in rows :
                     /\ StartOf(r) > StartOf(main)
                     /\ Cardinality({q \in rows : /\ StartOf(q) < StartOf(r)
                                                  /\ StartOf(main) < StartOf(q)}) < 2}
        text(f) == [i \in DOMAIN f |-> db.segments[f[i]].text]
    IN  Join((IF before # {} THEN <<"...">> \o text(Ascending(before)) ELSE <<>>)
             \o <<"[MAIN SEGMENT: " \o db.segments[main].text \o "]">>
             \o (IF after # {} THEN text(Ascending(after)) \o <<"...">> ELSE <<>>),
             " ")

\* C22: the enriched list has the length and the order of the filtered list;
\* each source keeps its video id, title, timestamp and url, and its text is
\* built around a segment within 0.5 s of its timestamp, else the nearest
\* one: at most 2 segments just before it in the order of time, the main
\* segment in its marker, at most 2 segments just after it, with an ellipsis
\* at the front only if a segment precedes and at the end only if one follows.
C22_EnrichedText ==
    pc = "correct"
        => /\ Len(sources) = Len(answer_sources)
           /\ \A i \in DOMAIN sources :
                 /\ sources[i].video_id = answer_sources[i].video_id
                 /\ sources[i].video_title = answer_sources[i].video_title
                 /\ sources[i].timestamp = answer_sources[i].timestamp
                 /\ sources[i].url = answer_sources[i].url
                 /\ \E main \in BackingRows(answer_sources[i]) :
                       sources[i].text = EnrichedText(main)

\* a source that lies between two segments was enriched around a segment
\* with three segments before it and three after it
C22_Witness ==
    /\ pc = "correct"
    /\ Len(db.segments) = 8
    /\ \E i \in DOMAIN sources :
          /\ sources[i].video_id = V1
          /\ \A r \in DOMAIN db.segments : StartOf(r) # sources[i].timestamp
          /\ sources[i].text =
                Join(<<"...", db.segments[2].text, db.segments[3].text,
                       "[MAIN SEGMENT: " \o db.segments[4].text \o "]",
                       db.segments[5].text, db.segments[7].text, "...">>, " ")

--------------------------------------------------------------------------
(* Properties of excerpts and titles *)

\* text cut after limit characters, with an ellipsis, when it is longer
Excerpt(text, limit) ==
    IF Len(text) <= limit THEN text ELSE SubSeq(text, 1, limit) \o "..."

\* the text of every source of srcs is the excerpt of 200 characters of the
\* segment of its video that starts at its timestamp
ExcerptsOfSegments(srcs) ==
    \A i \in DOMAIN srcs :
        \E r \in DOMAIN db.segments :
            /\ db.segments[r].video_id = srcs[i].video_id
            /\ db.segments[r].start_time = srcs[i].timestamp
            /\ srcs[i].text = Excerpt(db.segments[r].text, 200)

\* the conversations the turn has created
CreatedConversations == conversations \ InitialConversations

\* C23: the text of a source as the header resolver, the answer-based
\* search or the fallback search makes it is the segment text when it
\* has at most 200 characters, and its first 200 characters followed by
\* "..." otherwise; the title of a new conversation is the first message
\* when it has at most 50 characters, and its first 50 characters followed
\* by "..." otherwise.
C23_ExcerptsAndTitles ==
    /\ ExcerptsOfSegments(header_sources)
    /\ ExcerptsOfSegments(answer_sources)
    /\ pc \in {"answer", "search", "combine", "filter"} => ExcerptsOfSegments(sources)
    /\ \A c \in CreatedConversations : c.title = Excerpt(request.message, 50)

\* a turn with a message of 51 characters whose answer-based search found a
\* segment of exactly 200 characters and one of 201
C23_Witness ==
    /\ pc = "filter"
    /\ Len(request.message) = 51
    /\ \E c \in CreatedConversations : Len(c.title) = 53
    /\ \E i, j \in DOMAIN answer_sources :
          /\ Len(answer_sources[i].text) = 200
          /\ Len(answer_sources[j].text) = 203
    /\ header_sources # <<>>

\* the source lists the turn has returned or stored on an assistant message
PublishedSources ==
    {response.sources}
    \cup {AddedMessages[i].sources : i \in {j \in DOMAIN AddedMessages :
                                               AddedMessages[j].role = "assistant"}}

\* C24: every source the turn returns or stores on the assistant message has
\* a text of at most 203 characters, which is the excerpt of 200 characters
\* of a segment of its video, also when the enrichment ran.
C24_PublishedSourceShape ==
    \A srcs \in PublishedSources :
        \A i \in DOMAIN srcs :
            /\ Len(srcs[i].text) <= 203
            /\ \E r \in DOMAIN db.segments :
                  /\ db.segments[r].video_id = srcs[i].video_id
                  /\ srcs[i].text = Excerpt(db.segments[r].text, 200)

--------------------------------------------------------------------------
(* Properties of the keys of the sources *)

\* no two sources of srcs have the same video id and whole second
DistinctKeys(srcs) ==
    \A i, j \in DOMAIN srcs :
        (srcs[i].video_id = srcs[j].video_id
            /\ Floor(srcs[i].timestamp) = Floor(srcs[j].timestamp)) => i = j

\* C25: the list handed to the filter, and the list returned and stored on
\* the assistant message, hold no two sources with the same video id and
\* whole second of the timestamp, whichever branch made the candidates.
C25_DistinctKeys ==
    /\ pc = "filter" => DistinctKeys(sources)
    /\ \A srcs \in PublishedSources : DistinctKeys(srcs)

--------------------------------------------------------------------------
(* Properties of search_videos *)

\* a marker whose start is a number and whose video_id is a uuid
WellFormedHeader(h) == ParseFloat(h.start).ok /\ IsPostgresUuid(h.video_id)

\* what search_videos returns for the markers of the context that are well formed
ResultsOfWellFormed ==
    SearchVideosLoop(db, user, search_request.security_level_filter,
                     SelectSeq(SearchMatches(lightrag_context), WellFormedHeader),
                     1, {}, <<>>, FALSE, FALSE)

\* C26: search_videos skips a marker whose start is no number or whose
\* video_id is no valid identifier: once the retrieval backend has returned a
\* context the request does not fail, the marker gives no result, and the
\* results are those of the other markers of the context.
C26_MalformedHeaderSkipped ==
    search_pc \in {"done", "failed"} /\ lightrag_context # <<>> =>
        /\ search_pc = "done"
        /\ search_response = ResultsOfWellFormed

--------------------------------------------------------------------------
(* Properties of the conversation history *)

\* the stored messages of the conversation of the turn, oldest first
StoredMessages == SelectSeq(messages, LAMBDA m : m.conversation_id = conversation)

\* s[-n:]
LastOf(s, n) == SubSeq(s, IF Len(s) > n THEN Len(s) - n + 1 ELSE 1, Len(s))

\* the last max_messages stored messages without the message of the turn,
\* which is the last one stored
RecentHistory ==
    LET recent == LastOf(StoredMessages, HistoryLimit)
        prior == SubSeq(recent, 1, Len(recent) - 1)
    IN  [i \in DOMAIN prior |-> [role |-> prior[i].role, content |-> prior[i].content]]

\* C27: once the user message of the turn is stored, the history handed to
\* the retrieval backend is the most recent messages of the conversation
\* before that message (the last 10 stored ones without it), oldest first,
\* and the message of the turn is not in it.
C27_HistoryIsRecent ==
    pc = "vectors" =>
        /\ history = RecentHistory
        /\ \A i \in DOMAIN history : history[i].content # request.message

--------------------------------------------------------------------------
(* Properties of the ownership of conversations *)

\* the conversation c belongs to the user u and to the organization of u
Owns(u, c) == c.user_id = u.id /\ c.organization_id = u.organization_id

\* the user u owns no stored conversation of this id
NotOwned(u, conversation_id) ==
    \A c \in conversations : c.id = conversation_id => ~Owns(u, c)

MessagesIn(msgs, conversation_id) ==
    SelectSeq(msgs, LAMBDA m : m.conversation_id = conversation_id)

\* the step is the start of send_message, or one of the other operations
SendMessageStep == pc = "start" /\ pc' # "start"

OperationStep ==
    /\ conversation_response = NoConversationResponse
    /\ conversation_response' # NoConversationResponse

--------------------------------------------------------------------------
(* Properties of the segments of a video *)

\* every task sent to the queue has ended
AllTasksFinished ==
    tasks # <<>> /\ \A t \in DOMAIN tasks : tasks[t].pc \in {"done", "failed"}

\* the rows of the segments of the video video_id, by their place in the table
SegmentsOfVideo(video_id) ==
    {r \in DOMAIN db.segments : db.segments[r].video_id = video_id}

\* C29: once every transcription task started for the video has finished, the
\* video holds the segments of one run of the transcription: no two of its
\* segments have the same segment_id.
C29_SegmentsOfOneRun ==
    AllTasksFinished =>
        \A r1, r2 \in SegmentsOfVideo(V1) :
            db.segments[r1].segment_id = db.segments[r2].segment_id => r1 = r2

--------------------------------------------------------------------------
(* Properties of the access test *)

HasPermissionRow(u, video) ==
    \E p \in db.permissions : p.video_id = video.id /\ p.user_id = u.id

\* the users who may see the video
MayAccess(u, video) ==
    \/ u.role = "super_admin"
    \/ u.role = "org_admin" /\ u.organization_id = video.organization_id
    \/ /\ u.organization_id = video.organization_id
       /\ \/ HasPermissionRow(u, video)
          \/ video.security_level \in {"public", "internal"}

\* the video of the last call of can_access_video
TestedVideo == CHOOSE v \in db.videos : v.id = access_result.video

\* C30: can_access_video returns true exactly for a super admin, for an org
\* admin of the organization of the video, and for a user of the organization
\* of the video who has a permission row for it or when its level is public
\* or internal. A permission row gives no access to a video of another
\* organization, a regular user without one has no access to a confidential
\* or secret video, and filter_accessible_videos keeps exactly the videos the
\* test accepts, in their order.
C30_AccessExact ==
    /\ access_result # NoAccessResult =>
          /\ access_result.granted <=> MayAccess(user, TestedVideo)
          /\ user.role # "super_admin"
                 /\ user.organization_id # TestedVideo.organization_id
             => ~access_result.granted
          /\ user.role = "user" /\ ~HasPermissionRow(user, TestedVideo)
                 /\ TestedVideo.security_level \in {"confidential", "secret"}
             => ~access_result.granted
    /\ \A i \in DOMAIN accessible : MayAccess(user, accessible[i])
    /\ accessible # <<>> =>
          accessible = SelectSeq(VideoList(db), LAMBDA v : MayAccess(user, v))

\* an org admin of another organization with a permission row for the video
\* was refused
C30_Witness ==
    /\ access_result.video = V1
    /\ ~access_result.granted
    /\ user.role = "org_admin"
    /\ user.organization_id = OrgB
    /\ HasPermissionRow(user, TestedVideo)
    /\ accessible = <<VideoRow(V3, OrgB, "public", "Annet")>>

==========================================================================
